---- MODULE Spec2Model ----
(***************************************************************************)
(* Threat-Response Security Core of DEFENDER DETECTIVE // Black Ice        *)
(* Protocol: the ThreatMonitor's rolling threat history and derived        *)
(* SecurityLevel, the main process's copy of that level, and the           *)
(* PanicHandler's lockdown / panic-mode ladder.                            *)
(***************************************************************************)
EXTENDS Integers, Sequences, FiniteSets, TLC

(***************************************************************************)
(* Program constants and bounds of the model.                              *)
(***************************************************************************)

\* threatMonitor.js:442  if (this.recentThreats.length > 100)
HistoryCapacity == 100

\* Environment bound: the severity of a report is chosen freely for the first
\* BurstLen reports and again once the window is full; in between, the quiet
\* period, only LOW events are reported.
BurstLen == 4

\* Environment bound: number of reports made after the window has filled up.
ExtraReports == 2

MaxReports == HistoryCapacity + ExtraReports

\* threatMonitor.js:457-458 count the 'HIGH' and the 'MEDIUM' events; an event
\* of any other severity (LOW) only counts towards the length of the history.
Severities == {"LOW", "MEDIUM", "HIGH"}

\* Environment bounds of the PanicHandler runs: external activate-lockdown
\* commands (IPC, tray), external deactivate-lockdown commands, and inputs in
\* which a passphrase is detected.
MaxActivateCalls == 1

MaxDeactivateCalls == 1

MaxDetections == 2

\* threatMonitor.js:518-523 this.emergencyPassphrases, in insertion order.
EmergencyPassphrases ==
    <<"BLACK_ICE_PROTOCOL", "DEFENDER_DETECTIVE_EMERGENCY",
      "PANIC_MODE_ACTIVATE", "SELF_DESTRUCT_SEQUENCE">>

Levels == {"GREEN", "YELLOW", "RED"}

\* Environment bound: reports in a run in which the handling of the reported
\* threats goes on.
MaxHandledReports == 4

\* Environment bound: process starts after the first one, per component.
MaxStarts == 2

\* Environment bounds: scans in a run, and items in one listing.
MaxScans == 2

\* Environment bound: scans in a run that observes the entropy only.
MaxEntropyChecks == 5

MaxListed == 1

\* Environment bound: addProtectedFolder / removeProtectedFolder commands.
MaxFolderCommands == 3

\* Folder paths the commands are given, as typed; "/proj/" and "/proj" name
\* the same folder.
RawPaths == {"/proj", "/proj/", "/other"}

\* Environment bounds: length of a file's plaintext in bytes, and number of
\* encryptFile / decryptFile / activateDecoyFiles calls, tamperings and key
\* replacements in a run.
MaxContentLen == 1

MaxFileOps == 3

\* The size ceiling N of the active log file (this.maxLogSize,
\* securityLogger.js:11), in units of the smallest entry.
LogCeiling == 3

\* Environment bounds: how far the active log file may grow beyond the
\* ceiling, and the number of rotations in a run.
ExtraLogSize == 3

MaxRotations == 11

\* securityLogger.js:12 this.maxLogFiles
MaxLogFiles == 10

\* Sizes of an encrypted log entry.
EntrySizes == {1, 2}

VARIABLES
    \* ---- ThreatMonitor (threatMonitor.js:12-58)
    isRunning,        \* this.isRunning
    recentThreats,    \* this.recentThreats, newest first
    \* ---- main process (part_000:65-68, 92-93)
    securityLevel,    \* let securityLevel = 'GREEN'
    subscribed,       \* handlers registered on 'threat-detected' / 'security-level-changed'
    mainIsLockedDown, \* let isLockedDown = false  (part_000:67)
    mainPanicMode,    \* let panicMode = false     (part_000:68)
    handlerLogging,   \* handleThreatDetected runs suspended in await logThreat
                      \* (followed for the first MaxHandledReports threats)
    threatLog,        \* threat entries in the log file, in the order appended
    dispatched,       \* threats whose countermeasure was dispatched, in order
    \* ---- observations of the run (history variables)
    reported,         \* every threat passed to reportThreat, in emission order
    levelEvents,      \* every level emitted as 'security-level-changed', in order
    handlerWrote,     \* level last assigned by handleThreatDetected, "NONE" if it never ran
    \* ---- PanicHandler (threatMonitor.js:512-539)
    isLockedDown,     \* this.isLockedDown
    panicMode,        \* this.panicMode
    panicTrigger,     \* the trigger argument of the running activatePanicMode
    panicPc,          \* where activatePanicMode / executeEmergencyProcedures is suspended
    actRuns,          \* activateLockdown invocations suspended at an await
    deactRuns,        \* deactivateLockdown invocations suspended at an await, per await
    timers,           \* pending auto-deactivation timers (by the run that set them)
    \* ---- EncryptedLogStore and process
    logStore,         \* entries in the log files, counted per action name
    dataDirExists,    \* the application data directory exists
    processAlive,     \* process.exit has not been called
    \* ---- observations of the run (history variables)
    episodes,         \* times isLockedDown went from false to true
    runsStarted,      \* activateLockdown invocations that passed the guard
    effects,          \* how often each side effect of activateLockdown was performed
    ladder,           \* emergency procedures started, in order
    ladderStarts,     \* times executeEmergencyProcedures was entered
    autoDeactivated,  \* lockdowns ended by a timer
    activateCalls,    \* external activateLockdown commands so far
    deactivateCalls,  \* external deactivateLockdown commands so far
    detections,       \* inputs with a passphrase so far
    destructSeen,     \* an input containing SELF_DESTRUCT_SEQUENCE has arrived
    \* ---- VaultManager: protected folders (part_001:11-33)
    vaultReady,       \* this.isInitialized
    protectedFolders, \* this.protectedFolders
    fileWatchers,     \* keys of this.fileWatchers
    openWatchers,     \* per folder, chokidar watchers created and not closed
    persistedFolders, \* content of protected_folders.json
    pendingSaves,     \* saveProtectedFolders invocations not yet completed
    \* ---- observations of the run (history variables)
    registered,       \* folders registered (earlier run or add) and not removed
    watchFailed,      \* folders for which setting up the watch failed
    savesOk,          \* saves that wrote the file
    saveErrors,       \* saves that failed (logged by saveProtectedFolders)
    folderCommands,   \* add / remove commands so far
    lastCommand,      \* the last command: operation and resolved path
    \* ---- VaultManager: files (part_001:223-290, 481-521)
    fileContent,      \* content of every regular file
    blobStore,        \* content of path + '.encrypted', NoBlob when absent
    encryptionKey,    \* this.encryptionKey
    tempFiles,        \* per path, the content of the temp file decryptFile wrote
    tempDecryptedFiles, \* keys of this.tempDecryptedFiles
    \* ---- observations of the run (history variables)
    blobOrigin,       \* per path, the key and plaintext its blob was made from
    tampered,         \* paths whose blob was modified after it was written
    lastEncrypt,      \* the last encryptFile call and its outcome
    lastDecrypt,      \* the last decryptFile call and its outcome
    fileOps,          \* file operations so far
    \* ---- SecurityLogger: log files (securityLogger.js:8-24)
    loggerFiles,      \* the security_log_*.enc files in the log directory
    currentLogFile,   \* this.currentLogFile
    activeSize,       \* size of the current log file, 0 when it does not exist
    activeContent,    \* text of the current log file: entries and line feeds
    \* ---- observations of the run (history variables)
    lastAppendBase,   \* size of the active file just before the last append
    rotations,        \* rotations so far
    \* ---- timers, vanishing locks and shutdown
    intervals,        \* pending setInterval timers, by what they run
    vanishingLocks,   \* keys of VaultManager.vanishingLocks (part_001:19)
    lockFiles,        \* files whose filePath + '.lock' exists
    lockTimers,       \* per file, pending 30-second removal timers
    shutdownPc,       \* how far the 'before-quit' handler has come
    \* ---- encryption keys
    vaultKeyFile,     \* content of vault.key
    loggerKeyFile,    \* content of logger.key
    loggerKey,        \* SecurityLogger.encryptionKey
    \* ---- observations of the run (history variables)
    firstKeys,        \* the keys first generated, of the vault and of the logger
    starts,           \* later process starts so far, per component
    \* ---- ThreatMonitor: the security scan (threatMonitor.js:22-23, 98-118)
    entropyBaseline,  \* this.entropyBaseline, in tenths
    entropySpikes,    \* this.entropySpikes
    scanPc,           \* where performSecurityScan is suspended, "idle" if not running
    scanItems,        \* the items of the running loop not yet looked at
    \* ---- observations of the run (history variables)
    scans,            \* scans started so far
    lastSignal,       \* the last SignalSource call: its source and whether it failed
    lastMatch,        \* the last item looked at and the pattern reported for it
    spikesSinceReset, \* spikes observed since the start or the last reset
    lastEntropy,      \* the last entropy check: what it saw and did
    \* ---- the files no component keeps track of
    otherFiles,       \* files in os.tmpdir(), the cache and the log directory
    configWrites,     \* folder lists whose writeFile to protected_folders.json is in flight
    \* ---- observations of the run (history variables)
    lastFileEvent     \* the last watch event handled, what was decided and logged, and their number

monitorVars == <<isRunning, recentThreats, securityLevel, subscribed,
                 mainIsLockedDown, mainPanicMode, handlerLogging, threatLog,
                 dispatched, reported, levelEvents, handlerWrote>>

panicVars == <<isLockedDown, panicMode, panicTrigger, panicPc, actRuns,
               deactRuns, timers, logStore, dataDirExists, processAlive,
               episodes, runsStarted, effects, ladder, ladderStarts,
               autoDeactivated, activateCalls, deactivateCalls, detections,
               destructSeen>>

folderVars == <<vaultReady, protectedFolders, fileWatchers, openWatchers,
                persistedFolders, pendingSaves, registered, watchFailed,
                savesOk, saveErrors, folderCommands, lastCommand>>

\* The state of the VaultManager and the SecurityLogger.
fileVars == <<fileContent, blobStore, encryptionKey, tempFiles,
              tempDecryptedFiles, blobOrigin, tampered, lastEncrypt,
              lastDecrypt, fileOps>>

logVars == <<loggerFiles, currentLogFile, activeSize, activeContent,
             lastAppendBase, rotations>>

vaultSide == <<folderVars, fileVars, logVars>>

runtimeVars == <<intervals, vanishingLocks, lockFiles, lockTimers, shutdownPc>>

keyVars == <<vaultKeyFile, loggerKeyFile, loggerKey, firstKeys, starts>>

\* The state outside the ThreatMonitor, the PanicHandler, the vault's folders
\* and files, the log files and the timers.
scanVars == <<entropyBaseline, entropySpikes, scanPc, scanItems, scans,
              lastSignal, lastMatch, spikesSinceReset, lastEntropy>>

dataVars == <<otherFiles, configWrites, lastFileEvent>>

otherVars == <<keyVars, scanVars, dataVars>>

vars == <<monitorVars, panicVars, vaultSide, runtimeVars, otherVars>>

(***************************************************************************)
(* Helpers                                                                 *)
(***************************************************************************)

Last(s) == s[Len(s)]

Range(s) == {s[i] : i \in 1..Len(s)}

IsHigh(t) == t.severity = "HIGH"

IsMedium(t) == t.severity = "MEDIUM"

\* String.prototype.includes
Includes(s, pattern) ==
    \E i \in 0..(Len(s) - Len(pattern)) :
        \A k \in 1..Len(pattern) : s[i + k] = pattern[k]

\* String.prototype.startsWith
StartsWith(s, prefix) ==
    /\ Len(prefix) <= Len(s)
    /\ \A k \in 1..Len(prefix) : s[k] = prefix[k]

\* GREEN < YELLOW < RED
Rank(l) == CASE l = "GREEN" -> 0 [] l = "YELLOW" -> 1 [] l = "RED" -> 2

(***************************************************************************)
(* ThreatMonitor                                                           *)
(***************************************************************************)

\* Faulty variants of updateSecurityLevel: YELLOW from 2 MEDIUM events on, and
\* a level taken from the newest event alone.
DeriveLevelMediumOffByOne(h) ==
    LET highThreats   == Len(SelectSeq(h, IsHigh))
        mediumThreats == Len(SelectSeq(h, IsMedium))
    IN  IF highThreats > 0 THEN "RED"
        ELSE IF mediumThreats >= 2 \/ Len(h) > 5 THEN "YELLOW"
        ELSE "GREEN"

DeriveLevelFromLatestOnly(h) ==
    IF h = <<>> THEN "GREEN"
    ELSE IF h[1].severity = "HIGH" THEN "RED" ELSE "YELLOW"

\* threatMonitor.js:453-467 updateSecurityLevel: the level it emits for the
\* history h.
DeriveLevel(h) ==
    LET highThreats   == Len(SelectSeq(h, IsHigh))
        mediumThreats == Len(SelectSeq(h, IsMedium))
    IN  IF highThreats > 0 THEN "RED"
        ELSE IF mediumThreats > 2 \/ Len(h) > 5 THEN "YELLOW"
        ELSE "GREEN"

\* Faulty variant of the truncation: drops the newest entry.
TruncateDropsNewest(h) ==
    IF Len(h) > HistoryCapacity THEN SubSeq(h, 2, Len(h)) ELSE h

\* threatMonitor.js:442-444: keep the first 100 entries (the newest ones).
Truncate(h) ==
    IF Len(h) > HistoryCapacity THEN SubSeq(h, 1, HistoryCapacity) ELSE h

\* threatMonitor.js:441-444: unshift the threat, then truncate.
AddToHistory(h, threat) == Truncate(<<threat>> \o h)

\* part_000:108: the level handleThreatDetected assigns for a threat.
HandleThreatDetectedLevel(threat) ==
    IF threat.severity = "HIGH" THEN "RED" ELSE "YELLOW"

\* part_000:138-139: the level handleSecurityLevelChange assigns.
HandleSecurityLevelChange(level) == level

\* Severities the environment may report as its n-th report (n counted from 0).
SeverityChoices(n) ==
    IF n < BurstLen \/ n >= HistoryCapacity THEN Severities ELSE {"LOW"}

\* threatMonitor.js:84-86 the 5-second scan interval, kept in
\* this.monitoringInterval, and 124-126 the 10-second debugger-timing
\* interval, whose handle is not kept.
MonitorIntervals == {"scan", "debugger"}

\* threatMonitor.js:78-96 startMonitoring (called by initialize, part_000:85).
StartMonitoring ==
    /\ ~isRunning
    /\ isRunning' = TRUE
    /\ intervals' = intervals \cup MonitorIntervals
    /\ UNCHANGED <<recentThreats, securityLevel, subscribed, reported,
                   levelEvents, handlerWrote>>
    /\ UNCHANGED <<mainIsLockedDown, mainPanicMode>>
    /\ UNCHANGED <<handlerLogging, threatLog, dispatched>>
    /\ UNCHANGED panicVars
    /\ UNCHANGED vaultSide
    /\ UNCHANGED <<vanishingLocks, lockFiles, lockTimers, shutdownPc>>
    /\ UNCHANGED otherVars

\* part_000:92-93: the main process registers both handlers, after
\* threatMonitor.initialize() and panicHandler.initialize() have resolved.
Subscribe ==
    /\ isRunning
    /\ ~subscribed
    /\ subscribed' = TRUE
    /\ UNCHANGED <<isRunning, recentThreats, securityLevel, reported,
                   levelEvents, handlerWrote>>
    /\ UNCHANGED <<mainIsLockedDown, mainPanicMode>>
    /\ UNCHANGED <<handlerLogging, threatLog, dispatched>>
    /\ UNCHANGED panicVars
    /\ UNCHANGED vaultSide
    /\ UNCHANGED runtimeVars
    /\ UNCHANGED otherVars

\* threatMonitor.js:437-451 reportThreat, with the synchronous part of the
\* listeners it runs: emit('threat-detected') runs handleThreatDetected up to
\* its first await (part_000:104-111), where logThreat has called
\* fs.appendFile (securityLogger.js:199-208, 271) and the run is suspended;
\* updateSecurityLevel emits 'security-level-changed', which runs
\* handleSecurityLevelChange. Threats are identified by their timestamp.
ReportThreatEffect(sev) ==
    /\ LET threat     == [severity |-> sev, timestamp |-> Len(reported) + 1]
           hist       == AddToHistory(recentThreats, threat)
           newLevel   == DeriveLevel(hist)
           afterThreat == IF subscribed THEN HandleThreatDetectedLevel(threat)
                                        ELSE securityLevel
           afterLevel  == IF subscribed THEN HandleSecurityLevelChange(newLevel)
                                        ELSE afterThreat
       IN  /\ recentThreats' = hist
           /\ reported' = Append(reported, threat)
           /\ levelEvents' = Append(levelEvents, newLevel)
           /\ handlerWrote' = IF subscribed THEN HandleThreatDetectedLevel(threat)
                                            ELSE handlerWrote
           /\ securityLevel' = afterLevel
           /\ handlerLogging' =
                  IF subscribed /\ Len(reported) < MaxHandledReports
                  THEN handlerLogging \cup {threat.timestamp}
                  ELSE handlerLogging
    /\ UNCHANGED <<isRunning, subscribed, mainIsLockedDown, mainPanicMode>>
    /\ UNCHANGED <<threatLog, dispatched>>

\* A threat of a severity the environment chooses is reported.
ReportThreat(sev) ==
    /\ isRunning
    /\ Len(reported) < MaxReports
    /\ sev \in SeverityChoices(Len(reported))
    /\ ReportThreatEffect(sev)
    /\ UNCHANGED panicVars
    /\ UNCHANGED vaultSide
    /\ UNCHANGED runtimeVars
    /\ UNCHANGED otherVars

\* securityLogger.js:271, part_000:111-134: the appendFile of one suspended
\* handleThreatDetected run completes: its entry is in the log file, the run
\* resumes and dispatches the countermeasure of its threat (the switch on
\* threat.type). Appends in flight at the same time are separate requests to
\* the I/O thread pool; each of them may complete first.
ThreatLogged(id) ==
    /\ id \in handlerLogging
    /\ handlerLogging' = handlerLogging \ {id}
    /\ threatLog' = Append(threatLog, id)
    /\ dispatched' = Append(dispatched, id)
    /\ UNCHANGED <<isRunning, recentThreats, securityLevel, subscribed,
                   mainIsLockedDown, mainPanicMode, reported, levelEvents,
                   handlerWrote>>
    /\ UNCHANGED panicVars
    /\ UNCHANGED vaultSide
    /\ UNCHANGED runtimeVars
    /\ UNCHANGED otherVars

\* threatMonitor.js:482-484 getRecentThreats: recentThreats.slice(0, 20).
RecentThreatsLimit == 20

GetRecentThreats ==
    SubSeq(recentThreats, 1,
           IF Len(recentThreats) < RecentThreatsLimit THEN Len(recentThreats)
                                                      ELSE RecentThreatsLimit)

\* part_000:338-345 ipcMain.handle('get-security-status'): the status is
\* built from the main process's own three variables; no statement of
\* part_000 assigns isLockedDown or panicMode after their declaration.
GetSecurityStatus ==
    [level        |-> securityLevel,
     isLockedDown |-> mainIsLockedDown,
     panicMode    |-> mainPanicMode,
     threats      |-> GetRecentThreats]

(***************************************************************************)
(* EncryptedLogStore                                                       *)
(***************************************************************************)

\* The action names the PanicHandler and the VaultManager log through
\* logAction.
LogActions ==
    {"PANIC_MODE_ACTIVATED", "LOCKDOWN_ACTIVATED", "LOCKDOWN_DEACTIVATED",
     "NETWORK_ACCESS_DISABLED", "NETWORK_ACCESS_ENABLED",
     "DECOY_FILES_ACTIVATED", "VANISHING_LOCKS_REMOVED", "FAKE_CRASH_EXECUTED",
     "APPLICATION_FILES_DELETION_REQUESTED", "SELF_OBLITERATION_COMPLETE",
     "STANDARD_PROTECTIONS_APPLIED"}

EmptyLog == [a \in LogActions |-> 0]

\* securityLogger.js:210-220 logAction, 259-277 writeLogEntry: the entry is
\* appended to the active log file; when the append fails (the log directory
\* is gone) the error is caught and the entry is dropped. The log store is
\* kept as the number of entries per action name; their order in the file is
\* not modelled.
AppendLog(log, entry) ==
    IF dataDirExists THEN [log EXCEPT ![entry] = @ + 1] ELSE log

\* threatMonitor.js:805-903 wipeSensitiveData and the four wipes it calls: the
\* action names it logs. None of them calls the logger.
WipeLogActions == {}

\* threatMonitor.js:978-1011 createVanishingLocks, createVanishingLocksForFolder
\* and part_001 createVanishingLock: the action names they log.
VanishingLockLogActions == {}

(***************************************************************************)
(* PanicHandler: lockdown                                                  *)
(***************************************************************************)

\* The awaits of activateLockdown (threatMonitor.js:748-769), in order; a run
\* at pc p is suspended in the await of step p.
ActPcs == <<"encrypt", "network", "locks", "decoys", "log", "timer">>

\* The awaits of deactivateLockdown (threatMonitor.js:786-795), in order.
DeactPcs == <<"locks", "network", "log">>

EffectOps == {"encrypt", "network", "locks", "decoys", "log", "timer"}

Stage(p) == CHOOSE i \in 1..Len(ActPcs) : ActPcs[i] = p

\* Faulty variant: activateLockdown without its guard.
AlreadyLockedDownNever == FALSE

\* threatMonitor.js:741  if (this.isLockedDown) return;

AlreadyLockedDown == isLockedDown

\* Faulty variant: activateLockdown without its setTimeout.
ScheduleTimerForgotten(ts, id) == ts

\* threatMonitor.js:767-769 setTimeout(() => this.deactivateLockdown(), ...)

ScheduleTimer(ts, id) == ts \cup {id}

\* threatMonitor.js:740-749 activateLockdown up to its first await: the guard,
\* isLockedDown = true, and the call of encryptAllSensitiveFiles.
\* Leaves panicPc, logStore, timers and the call counters to the caller.
ActivateLockdown(caller) ==
    IF AlreadyLockedDown
    THEN UNCHANGED <<isLockedDown, actRuns, episodes, runsStarted>>
    ELSE /\ isLockedDown' = TRUE
         /\ actRuns' = actRuns \cup
                {[id |-> runsStarted + 1, pc |-> "encrypt", caller |-> caller]}
         /\ runsStarted' = runsStarted + 1
         /\ episodes' = IF isLockedDown THEN episodes ELSE episodes + 1

\* part_000:347-355 ipcMain.handle('activate-lockdown') and part_000:311-314
\* the tray's 'Lock Everything'.
IpcActivateLockdown ==
    /\ processAlive
    /\ activateCalls < MaxActivateCalls
    /\ activateCalls' = activateCalls + 1
    /\ ActivateLockdown("ipc")
    /\ UNCHANGED <<panicMode, panicTrigger, panicPc, deactRuns, timers,
                   logStore, dataDirExists, processAlive, effects, ladder,
                   ladderStarts, autoDeactivated, deactivateCalls, detections>>
    /\ UNCHANGED destructSeen
    /\ UNCHANGED monitorVars
    /\ UNCHANGED vaultSide
    /\ UNCHANGED runtimeVars
    /\ UNCHANGED otherVars

\* threatMonitor.js:1031-1049 fakeApplicationCrash is entered: the ladder is
\* now suspended in it.
EnterFakeCrash ==
    /\ panicPc' = "crash"
    /\ ladder' = Append(ladder, "FAKE_CRASH")

\* threatMonitor.js:778-787 deactivateLockdown up to its first await: the
\* guard, isLockedDown = false, and the call of removeVanishingLocks. The
\* pending timers are left as they are.
DeactivateLockdown ==
    IF ~isLockedDown
    THEN UNCHANGED <<isLockedDown, deactRuns>>
    ELSE /\ isLockedDown' = FALSE
         /\ deactRuns' = [deactRuns EXCEPT !["locks"] = @ + 1]

\* part_000:357-365 ipcMain.handle('deactivate-lockdown').
IpcDeactivateLockdown ==
    /\ processAlive
    /\ deactivateCalls < MaxDeactivateCalls
    /\ deactivateCalls' = deactivateCalls + 1
    /\ DeactivateLockdown
    /\ UNCHANGED <<panicMode, panicTrigger, panicPc, actRuns, timers, logStore,
                   dataDirExists, processAlive, episodes, runsStarted, effects,
                   ladder, ladderStarts, autoDeactivated, activateCalls,
                   detections>>
    /\ UNCHANGED destructSeen
    /\ UNCHANGED monitorVars
    /\ UNCHANGED vaultSide
    /\ UNCHANGED runtimeVars
    /\ UNCHANGED otherVars

\* threatMonitor.js:767-769: the timer set by run id fires and calls
\* deactivateLockdown.
TimerFires(id) ==
    /\ processAlive
    /\ id \in timers
    /\ timers' = timers \ {id}
    /\ DeactivateLockdown
    /\ autoDeactivated' = IF isLockedDown THEN autoDeactivated + 1
                                          ELSE autoDeactivated
    /\ UNCHANGED <<panicMode, panicTrigger, panicPc, actRuns, logStore,
                   dataDirExists, processAlive, episodes, runsStarted, effects,
                   ladder, ladderStarts, activateCalls, deactivateCalls,
                   detections>>
    /\ UNCHANGED destructSeen
    /\ UNCHANGED monitorVars
    /\ UNCHANGED vaultSide
    /\ UNCHANGED runtimeVars
    /\ UNCHANGED otherVars

\* threatMonitor.js:787-795: one deactivateLockdown invocation suspended at
\* await p resumes and runs to the next await (or to its end).
DeactivationStep(p) ==
    /\ processAlive
    /\ deactRuns[p] > 0
    /\ logStore' = CASE p = "locks"   -> AppendLog(logStore, "VANISHING_LOCKS_REMOVED")
                     [] p = "network" -> AppendLog(logStore, "NETWORK_ACCESS_ENABLED")
                     [] p = "log"     -> AppendLog(logStore, "LOCKDOWN_DEACTIVATED")
    /\ deactRuns' = CASE p = "locks"   -> [deactRuns EXCEPT !["locks"] = @ - 1,
                                                            !["network"] = @ + 1]
                      [] p = "network" -> [deactRuns EXCEPT !["network"] = @ - 1,
                                                            !["log"] = @ + 1]
                      [] p = "log"     -> [deactRuns EXCEPT !["log"] = @ - 1]
    /\ UNCHANGED <<isLockedDown, panicMode, panicTrigger, panicPc, actRuns,
                   timers, dataDirExists, processAlive, episodes, runsStarted,
                   effects, ladder, ladderStarts, autoDeactivated,
                   activateCalls, deactivateCalls, detections>>
    /\ UNCHANGED destructSeen
    /\ UNCHANGED monitorVars
    /\ UNCHANGED vaultSide
    /\ UNCHANGED runtimeVars
    /\ UNCHANGED otherVars

(***************************************************************************)
(* PanicHandler: wipeSensitiveData                                         *)
(***************************************************************************)

\* A file is a directory and a name, the name a sequence of characters. The
\* directories: "tmp" is os.tmpdir(), "data" is <home>/.defender_detective,
\* "cache" and "logs" are its subdirectories of these names.
File(dir, name) == [dir |-> dir, name |-> name]

DigitChars == <<"0", "1", "2", "3", "4", "5", "6", "7", "8", "9">>

\* The decimal digits of a number below 100.
Digits(n) ==
    IF n < 10 THEN <<DigitChars[n + 1]>>
    ELSE <<DigitChars[(n \div 10) + 1], DigitChars[(n % 10) + 1]>>

\* securityLogger.js:94-96 createNewLogFile: `security_log_${timestamp}.enc`
\* in the log directory; the number of the file stands for its timestamp.
LogFileName(n) ==
    <<"s", "e", "c", "u", "r", "i", "t", "y", "_", "l", "o", "g", "_">> \o Digits(n) \o <<".", "e", "n", "c">>

LogFile(n) == File("logs", LogFileName(n))

\* part_001:63  <home>/.defender_detective/vault.key
VaultKeyPath == File("data", <<"v", "a", "u", "l", "t", ".", "k", "e", "y">>)

\* securityLogger.js:67  <home>/.defender_detective/logger.key
LoggerKeyPath == File("data", <<"l", "o", "g", "g", "e", "r", ".", "k", "e", "y">>)

\* part_001:90, 111  <home>/.defender_detective/protected_folders.json
ConfigPath == File("data", <<"p", "r", "o", "t", "e", "c", "t", "e", "d", "_", "f", "o", "l", "d", "e", "r", "s", ".", "j", "s", "o", "n">>)

\* part_001:249 `dd_temp_${Date.now()}_${basename}` in os.tmpdir(): the shape
\* of the name of every temp file decryptFile writes.
VaultTempFile == File("tmp", <<"d", "d", "_", "t", "e", "m", "p", "_", "0", "_", "f">>)

\* Files that may lie about besides: in os.tmpdir() a temp file an earlier run
\* left, a file of this application and a file of another one; a cache entry;
\* in the log directory a debug log and a threat report.
LitterFiles ==
    {File("tmp", <<"d", "d", "_", "t", "e", "m", "p", "_", "1", "_", "a", ".", "p", "y">>),
     File("tmp", <<"m", "y", "_", "d", "e", "f", "e", "n", "d", "e", "r", "_", "d", "e", "t", "e", "c", "t", "i", "v", "e", ".", "t", "x", "t">>),
     File("tmp", <<"n", "o", "t", "e", "s", ".", "t", "x", "t">>),
     File("cache", <<"i", "n", "d", "e", "x", ".", "b", "i", "n">>),
     File("logs", <<"d", "e", "b", "u", "g", ".", "l", "o", "g">>),
     File("logs", <<"t", "h", "r", "e", "a", "t", "_", "r", "e", "p", "o", "r", "t", ".", "t", "x", "t">>)}

\* The files of the application's directories and of os.tmpdir(): the log
\* store, the key files, the persisted folder list when it was written, the
\* temp files of decryptFile and the files no component tracks.
FileSystem ==
    {LogFile(n) : n \in loggerFiles}
        \cup {VaultKeyPath, LoggerKeyPath}
        \cup (IF savesOk > 0 \/ persistedFolders # {} THEN {ConfigPath} ELSE {})
        \cup (IF \E p \in DOMAIN tempFiles : tempFiles[p] # <<>>
              THEN {VaultTempFile} ELSE {})
        \cup otherFiles

\* threatMonitor.js:828-849 wipeTempFiles: the entries of os.tmpdir() whose
\* name starts with 'dd_temp_' or contains 'defender_detective' are unlinked.
WipeTempFiles(files) ==
    {f \in files :
        ~(/\ f.dir = "tmp"
          /\ \/ StartsWith(f.name, <<"d", "d", "_", "t", "e", "m", "p", "_">>)
             \/ Includes(f.name, <<"d", "e", "f", "e", "n", "d", "e", "r", "_", "d", "e", "t", "e", "c", "t", "i", "v", "e">>))}

\* threatMonitor.js:851-865 wipeCache: the cache directory is removed with
\* all it holds and created again.
WipeCache(files) == {f \in files : f.dir # "cache"}

\* Faulty variant: only names containing 'threat' are kept.
KeptByLogWipeThreatOnly(name) ==
    Includes(name, <<"t", "h", "r", "e", "a", "t">>)

\* threatMonitor.js:875  if (!file.includes('security') && !file.includes('threat'))
KeptByLogWipe(name) ==
    \/ Includes(name, <<"s", "e", "c", "u", "r", "i", "t", "y">>)
    \/ Includes(name, <<"t", "h", "r", "e", "a", "t">>)

\* threatMonitor.js:867-891 wipeNonSecurityLogs: the entries of the log
\* directory that are not kept are unlinked.
WipeNonSecurityLogs(files) ==
    {f \in files : f.dir = "logs" => KeptByLogWipe(f.name)}

\* threatMonitor.js:805-826 wipeSensitiveData, steps 1 to 3.
WipeSensitiveData(files) == WipeNonSecurityLogs(WipeCache(WipeTempFiles(files)))

(***************************************************************************)
(* PanicHandler: panic mode                                                *)
(***************************************************************************)

\* Inputs: the set of passphrases an input text contains.
PanicInputs == (SUBSET Range(EmergencyPassphrases)) \ {{}}

\* threatMonitor.js:574-582 checkForPanicWords: the first passphrase, in the
\* set's insertion order, that the input contains.
FirstPassphrase(input) ==
    EmergencyPassphrases[
        CHOOSE i \in 1..Len(EmergencyPassphrases) :
            /\ EmergencyPassphrases[i] \in input
            /\ \A j \in 1..(i - 1) : EmergencyPassphrases[j] \notin input]

\* Faulty variant: activatePanicMode without its guard.
AlreadyInPanicModeNever == FALSE

\* threatMonitor.js:698  if (this.panicMode) return;

AlreadyInPanicMode == panicMode

\* Faulty variant: selfObliterate for every trigger.
IsDestructTriggerAlways(trigger) == TRUE

\* threatMonitor.js:728  if (trigger === 'SELF_DESTRUCT_SEQUENCE')

IsDestructTrigger(trigger) == trigger = "SELF_DESTRUCT_SEQUENCE"

\* threatMonitor.js:561-564, 574-582, 697-708: an input containing a
\* passphrase arrives; checkForPanicWords calls activatePanicMode, which runs
\* up to its first await (logAction).
DetectPanicWords(input) ==
    /\ processAlive
    /\ detections < MaxDetections
    /\ detections' = detections + 1
    /\ destructSeen' = (destructSeen \/ "SELF_DESTRUCT_SEQUENCE" \in input)
    /\ IF AlreadyInPanicMode
       THEN UNCHANGED <<panicMode, panicTrigger, panicPc, ladderStarts>>
       ELSE /\ panicMode' = TRUE
            /\ panicTrigger' = FirstPassphrase(input)
            /\ panicPc' = "logPanic"
            /\ ladderStarts' = ladderStarts + 1
    /\ UNCHANGED <<isLockedDown, actRuns, deactRuns, timers, logStore,
                   dataDirExists, processAlive, episodes, runsStarted, effects,
                   ladder, autoDeactivated, activateCalls, deactivateCalls>>
    /\ UNCHANGED monitorVars
    /\ UNCHANGED vaultSide
    /\ UNCHANGED runtimeVars
    /\ UNCHANGED otherVars

\* threatMonitor.js:704-719: the PANIC_MODE_ACTIVATED entry is written;
\* executeEmergencyProcedures starts wipeSensitiveData.
LadderLogged ==
    /\ processAlive
    /\ panicPc = "logPanic"
    /\ logStore' = AppendLog(logStore, "PANIC_MODE_ACTIVATED")
    /\ panicPc' = "wipe"
    /\ ladder' = Append(ladder, "WIPE")
    /\ UNCHANGED <<isLockedDown, panicMode, panicTrigger, actRuns, deactRuns,
                   timers, dataDirExists, processAlive, episodes, runsStarted,
                   effects, ladderStarts, autoDeactivated, activateCalls,
                   deactivateCalls, detections>>
    /\ UNCHANGED destructSeen
    /\ UNCHANGED monitorVars
    /\ UNCHANGED vaultSide
    /\ UNCHANGED runtimeVars
    /\ UNCHANGED otherVars

\* threatMonitor.js:719-725, 805-907: wipeSensitiveData runs and completes:
\* the files its three wipes leave are the files that remain, and clearMemory
\* has the vault forget its temp files (part_001:678-694). Then performLockdown
\* calls activateLockdown. When lockdown is already active it returns at once
\* and the ladder enters fakeApplicationCrash; otherwise the ladder waits for
\* its activation run.
LadderWiped ==
    /\ processAlive
    /\ panicPc = "wipe"
    /\ LET left == WipeSensitiveData(FileSystem)
       IN  /\ otherFiles' = otherFiles \cap left
           /\ loggerFiles' = {n \in loggerFiles : LogFile(n) \in left}
           /\ activeSize' = IF currentLogFile \in loggerFiles
                                 /\ LogFile(currentLogFile) \notin left
                             THEN 0 ELSE activeSize
           /\ activeContent' = IF currentLogFile \in loggerFiles
                                    /\ LogFile(currentLogFile) \notin left
                                THEN <<>> ELSE activeContent
           /\ vaultKeyFile' = IF VaultKeyPath \in left THEN vaultKeyFile ELSE 0
           /\ loggerKeyFile' = IF LoggerKeyPath \in left THEN loggerKeyFile ELSE 0
           /\ persistedFolders' = IF ConfigPath \in FileSystem \ left
                                   THEN {} ELSE persistedFolders
           /\ tempFiles' = [p \in DOMAIN tempFiles |->
                               IF VaultTempFile \in left THEN tempFiles[p]
                                                         ELSE <<>>]
    /\ tempDecryptedFiles' = {}
    /\ ActivateLockdown("panic")
    /\ IF AlreadyLockedDown
       THEN /\ panicPc' = "crash"
            /\ ladder' = ladder \o <<"LOCKDOWN", "FAKE_CRASH">>
       ELSE /\ panicPc' = "lockdown"
            /\ ladder' = Append(ladder, "LOCKDOWN")
    /\ UNCHANGED <<panicMode, panicTrigger, deactRuns, timers, logStore,
                   dataDirExists, processAlive, effects, ladderStarts,
                   autoDeactivated, activateCalls, deactivateCalls, detections>>
    /\ UNCHANGED destructSeen
    /\ UNCHANGED monitorVars
    /\ UNCHANGED <<vaultReady, protectedFolders, fileWatchers, openWatchers,
                   pendingSaves, registered, watchFailed, savesOk, saveErrors,
                   folderCommands, lastCommand>>
    /\ UNCHANGED <<fileContent, blobStore, encryptionKey, blobOrigin, tampered,
                   lastEncrypt, lastDecrypt, fileOps>>
    /\ UNCHANGED <<currentLogFile, lastAppendBase, rotations>>
    /\ UNCHANGED runtimeVars
    /\ UNCHANGED <<loggerKey, firstKeys, starts>>
    /\ UNCHANGED scanVars
    /\ UNCHANGED <<configWrites, lastFileEvent>>

\* threatMonitor.js:1031-1049, 725-732: the fake crash log is written and
\* FAKE_CRASH_EXECUTED logged; only for the destruct trigger the ladder goes
\* on to selfObliterate, otherwise the procedures are complete.
LadderCrashed ==
    /\ processAlive
    /\ panicPc = "crash"
    /\ logStore' = AppendLog(logStore, "FAKE_CRASH_EXECUTED")
    /\ IF IsDestructTrigger(panicTrigger)
       THEN /\ panicPc' = "obliterate"
            /\ ladder' = Append(ladder, "SELF_OBLITERATE")
       ELSE /\ panicPc' = "done"
            /\ UNCHANGED ladder
    /\ UNCHANGED <<isLockedDown, panicMode, panicTrigger, actRuns, deactRuns,
                   timers, dataDirExists, processAlive, episodes, runsStarted,
                   effects, ladderStarts, autoDeactivated, activateCalls,
                   deactivateCalls, detections>>
    /\ UNCHANGED destructSeen
    /\ UNCHANGED monitorVars
    /\ UNCHANGED vaultSide
    /\ UNCHANGED runtimeVars
    /\ UNCHANGED otherVars

\* threatMonitor.js:1089, 1110-1125 wipeAllData: the application data
\* directory is removed, with the log files in it.
LadderWipedAll ==
    /\ processAlive
    /\ panicPc = "obliterate"
    /\ dataDirExists' = FALSE
    /\ logStore' = EmptyLog
    /\ panicPc' = "exit"
    /\ UNCHANGED <<isLockedDown, panicMode, panicTrigger, actRuns, deactRuns,
                   timers, processAlive, episodes, runsStarted, effects,
                   ladder, ladderStarts, autoDeactivated, activateCalls,
                   deactivateCalls, detections>>
    /\ UNCHANGED destructSeen
    /\ UNCHANGED monitorVars
    /\ UNCHANGED vaultSide
    /\ UNCHANGED runtimeVars
    /\ UNCHANGED otherVars

\* threatMonitor.js:1092-1103: the deletion requests and the completion are
\* logged, then process.exit(0).
LadderExit ==
    /\ processAlive
    /\ panicPc = "exit"
    /\ logStore' = AppendLog(AppendLog(logStore,
                       "APPLICATION_FILES_DELETION_REQUESTED"),
                       "SELF_OBLITERATION_COMPLETE")
    /\ processAlive' = FALSE
    /\ panicPc' = "exited"
    /\ UNCHANGED <<isLockedDown, panicMode, panicTrigger, actRuns, deactRuns,
                   timers, dataDirExists, episodes, runsStarted, effects,
                   ladder, ladderStarts, autoDeactivated, activateCalls,
                   deactivateCalls, detections>>
    /\ UNCHANGED destructSeen
    /\ UNCHANGED monitorVars
    /\ UNCHANGED vaultSide
    /\ UNCHANGED runtimeVars
    /\ UNCHANGED otherVars

(***************************************************************************)
(* VaultManager: protected folders                                         *)
(***************************************************************************)

\* part_001:632, 650 path.resolve(folderPath): the absolute, normalised path;
\* a trailing separator is dropped.
Resolve(raw) == IF raw = "/proj/" THEN "/proj" ELSE raw

Folders == {Resolve(raw) : raw \in RawPaths}

\* Faulty variant: the membership test of add / remove always fails.
IsProtectedNever(folder) == FALSE

\* part_001:634, 652  this.protectedFolders.has(absolutePath)
IsProtected(folder) == folder \in protectedFolders

\* part_001:88-107 loadProtectedFolders: the persisted list, or the empty set
\* when the file cannot be read or parsed.
LoadProtectedFolders(readOk) == IF readOk THEN persistedFolders ELSE {}

\* part_001:136-159 watchFolder: nothing when the folder is already watched;
\* otherwise a watcher is created and stored, unless creating it throws, which
\* is caught and logged.
WatchFolder(folder, watchOk) ==
    IF folder \in fileWatchers
    THEN UNCHANGED <<fileWatchers, openWatchers, watchFailed>>
    ELSE IF watchOk
         THEN /\ fileWatchers' = fileWatchers \cup {folder}
              /\ openWatchers' = [openWatchers EXCEPT ![folder] = @ + 1]
              /\ watchFailed' = watchFailed \ {folder}
         ELSE /\ watchFailed' = watchFailed \cup {folder}
              /\ UNCHANGED <<fileWatchers, openWatchers>>

\* part_001:35-58 initialize: loadProtectedFolders (88-107), then
\* initializeFileWatchers (122-134) watches every loaded folder; failing are
\* the folders whose watch cannot be set up.
InitializeVault(readOk, failing) ==
    /\ ~vaultReady
    /\ failing \subseteq LoadProtectedFolders(readOk)
    /\ vaultReady' = TRUE
    /\ protectedFolders' = LoadProtectedFolders(readOk)
    /\ fileWatchers' = LoadProtectedFolders(readOk) \ failing
    /\ openWatchers' = [f \in Folders |->
                           IF f \in LoadProtectedFolders(readOk) \ failing
                           THEN 1 ELSE 0]
    /\ watchFailed' = failing
    /\ UNCHANGED <<persistedFolders, pendingSaves, registered, savesOk,
                   saveErrors, folderCommands, lastCommand>>
    /\ UNCHANGED <<monitorVars, panicVars, fileVars, logVars>>
    /\ UNCHANGED runtimeVars
    /\ UNCHANGED otherVars

\* part_001:630-646 addProtectedFolder up to the await of
\* saveProtectedFolders (watchFolder has no await of its own).
AddProtectedFolder(raw, watchOk) ==
    /\ vaultReady
    /\ folderCommands < MaxFolderCommands
    /\ folderCommands' = folderCommands + 1
    /\ lastCommand' = [op |-> "add", path |-> Resolve(raw)]
    /\ IF IsProtected(Resolve(raw))
       THEN UNCHANGED <<protectedFolders, fileWatchers, openWatchers,
                        watchFailed, pendingSaves, registered>>
       ELSE /\ protectedFolders' = protectedFolders \cup {Resolve(raw)}
            /\ WatchFolder(Resolve(raw), watchOk)
            /\ pendingSaves' = pendingSaves + 1
            /\ registered' = registered \cup {Resolve(raw)}
    /\ UNCHANGED <<vaultReady, persistedFolders, savesOk, saveErrors>>
    /\ UNCHANGED <<monitorVars, panicVars, fileVars, logVars>>
    /\ UNCHANGED runtimeVars
    /\ UNCHANGED otherVars

\* part_001:648-671 removeProtectedFolder up to the await of
\* saveProtectedFolders.
RemoveProtectedFolder(raw) ==
    /\ vaultReady
    /\ folderCommands < MaxFolderCommands
    /\ folderCommands' = folderCommands + 1
    /\ lastCommand' = [op |-> "remove", path |-> Resolve(raw)]
    /\ IF IsProtected(Resolve(raw))
       THEN /\ protectedFolders' = protectedFolders \ {Resolve(raw)}
            /\ IF Resolve(raw) \in fileWatchers
               THEN /\ fileWatchers' = fileWatchers \ {Resolve(raw)}
                    /\ openWatchers' = [openWatchers EXCEPT ![Resolve(raw)] = @ - 1]
               ELSE UNCHANGED <<fileWatchers, openWatchers>>
            /\ watchFailed' = watchFailed \ {Resolve(raw)}
            /\ pendingSaves' = pendingSaves + 1
            /\ registered' = registered \ {Resolve(raw)}
       ELSE UNCHANGED <<protectedFolders, fileWatchers, openWatchers,
                        watchFailed, pendingSaves, registered>>
    /\ UNCHANGED <<vaultReady, persistedFolders, savesOk, saveErrors>>
    /\ UNCHANGED <<monitorVars, panicVars, fileVars, logVars>>
    /\ UNCHANGED runtimeVars
    /\ UNCHANGED otherVars

\* part_001:109-120 saveProtectedFolders: mkdir and writeFile of the current
\* set; a failure is caught and logged.
SaveProtectedFolders(writeOk) ==
    /\ pendingSaves > 0
    /\ pendingSaves' = pendingSaves - 1
    /\ IF writeOk
       THEN /\ persistedFolders' = protectedFolders
            /\ savesOk' = savesOk + 1
            /\ UNCHANGED saveErrors
       ELSE /\ saveErrors' = saveErrors + 1
            /\ UNCHANGED <<persistedFolders, savesOk>>
    /\ UNCHANGED <<vaultReady, protectedFolders, fileWatchers, openWatchers,
                   registered, watchFailed, folderCommands, lastCommand>>
    /\ UNCHANGED <<monitorVars, panicVars, fileVars, logVars>>
    /\ UNCHANGED runtimeVars
    /\ UNCHANGED otherVars

\* part_001:109-115 saveProtectedFolders in its steps. The mkdir has
\* completed: the set as it is now is serialised and handed to writeFile.
SerializeProtectedFolders ==
    /\ pendingSaves > 0
    /\ pendingSaves' = pendingSaves - 1
    /\ configWrites' = configWrites \cup {protectedFolders}
    /\ UNCHANGED <<vaultReady, protectedFolders, fileWatchers, openWatchers,
                   persistedFolders, registered, watchFailed, savesOk,
                   saveErrors, folderCommands, lastCommand>>
    /\ UNCHANGED <<monitorVars, panicVars, fileVars, logVars>>
    /\ UNCHANGED runtimeVars
    /\ UNCHANGED <<keyVars, scanVars, otherFiles, lastFileEvent>>

\* part_001:115: one of the writeFile calls in flight completes, and the file
\* holds the list that was handed to it. The calls are separate requests to
\* the I/O thread pool; each of them may complete first.
ConfigWritten(folders) ==
    /\ folders \in configWrites
    /\ configWrites' = configWrites \ {folders}
    /\ persistedFolders' = folders
    /\ savesOk' = savesOk + 1
    /\ UNCHANGED <<vaultReady, protectedFolders, fileWatchers, openWatchers,
                   pendingSaves, registered, watchFailed, saveErrors,
                   folderCommands, lastCommand>>
    /\ UNCHANGED <<monitorVars, panicVars, fileVars, logVars>>
    /\ UNCHANGED runtimeVars
    /\ UNCHANGED <<keyVars, scanVars, otherFiles, lastFileEvent>>

(***************************************************************************)
(* VaultManager: files                                                     *)
(***************************************************************************)

\* The directory tree of the run: regular files, and one directory whose name
\* has a sensitive extension.
FilePaths == {"/proj/a.py", "/proj/readme.md", "/proj/lib.js/c.py", "/other/b.py"}

DirPaths == {"/proj/lib.js"}

\* fs.readdir(folderPath) joined with the folder (part_001:497-500): the
\* immediate children.
Children(folder) ==
    CASE folder = "/proj"  -> {"/proj/a.py", "/proj/readme.md", "/proj/lib.js"}
      [] folder = "/other" -> {"/other/b.py"}
      [] OTHER             -> {}

\* stat.isFile() (part_001:501, 503)
IsFile(path) == path \in FilePaths

\* path.extname(filePath).toLowerCase() (part_001:519) on the paths above.
ExtName(path) ==
    CASE path \in {"/proj/a.py", "/proj/lib.js/c.py", "/other/b.py"} -> ".py"
      [] path = "/proj/readme.md" -> ".md"
      [] path = "/proj/lib.js"    -> ".js"

\* part_001:518
SensitiveExtensions ==
    {".js", ".ts", ".py", ".java", ".cpp", ".h", ".json", ".xml", ".yaml",
     ".yml", ".env", ".key", ".pem"}

\* Faulty variant: every file counts as sensitive.
IsSensitiveFileAlways(path) == TRUE

\* part_001:517-521 isSensitiveFile
IsSensitiveFile(path) == ExtName(path) \in SensitiveExtensions

\* part_001:523-539 generateDecoyContent: the decoy text of the extension's
\* family, each text represented by its first byte ('/', '#', '{', '<', 'D').
GenerateDecoyContent(path) ==
    CASE ExtName(path) \in {".js", ".ts"} -> <<47>>
      [] ExtName(path) = ".py"            -> <<35>>
      [] ExtName(path) = ".json"          -> <<123>>
      [] ExtName(path) = ".xml"           -> <<60>>
      [] OTHER                            -> <<68>>

DecoyContents == {<<47>>, <<35>>, <<123>>, <<60>>, <<68>>}

\* Plaintexts of the run: byte strings over {0, 1}, the empty one included.
Plaintexts == UNION {[1..n -> {0, 1}] : n \in 0..MaxContentLen}

VaultKeys == {1, 2}

\* part_001:264 crypto.randomBytes(this.ivLength)
IVs == {0, 1}

\* The key stream of the cipher. crypto.createCipher (part_001:265) derives
\* key and IV from the password alone, so the stream depends on the vault key
\* and the position, not on the random IV stored in the blob.
KeyStream(key, i) == (key * 31 + i * 7) % 256

RECURSIVE EncodeBytes(_)
EncodeBytes(bytes) ==
    IF bytes = <<>> THEN 1 ELSE bytes[1] + 1 + 257 * EncodeBytes(Tail(bytes))

\* part_001:266, 271 the GCM authentication tag over the ciphertext and the
\* fixed associated data, under the key; distinct for distinct (key, ct).
AuthTag(key, ct) == key + 3 * EncodeBytes(ct)

\* part_001:263-275 encrypt: Buffer.concat([iv, encrypted, tag]).
Encrypt(key, iv, data) ==
    LET ct == [i \in 1..Len(data) |-> (data[i] + KeyStream(key, i)) % 256]
    IN  [iv |-> iv, ct |-> ct, tag |-> AuthTag(key, ct)]

\* part_001:277-290 decrypt: the blob is split into iv, ciphertext and tag;
\* createDecipher takes the key only; final() throws when the tag does not
\* authenticate the ciphertext.
Decrypt(key, blob) ==
    IF blob.tag = AuthTag(key, blob.ct)
    THEN [ok |-> TRUE,
          data |-> [i \in 1..Len(blob.ct) |->
                       (blob.ct[i] + 256 - KeyStream(key, i)) % 256]]
    ELSE [ok |-> FALSE, data |-> <<>>]

\* No file at path + '.encrypted'.
NoBlob == [iv |-> 0, ct |-> <<>>, tag |-> 0]

\* part_001:233 await this.createDecoyFile(filePath): the class defines no
\* method of that name (only createDecoyFiles, 293), so the call throws a
\* TypeError, which encryptFile catches and logs (236-238): the content of
\* the files stays as it is.
CreateDecoyFile(content, path) == content

\* part_001:1-9: the module requires fs, path, crypto, chokidar and
\* child_process, not os, so os.tmpdir() (249) throws a ReferenceError.
OsModuleLoaded == FALSE

\* part_001:223-240 encryptFile.
EncryptFile(path, readOk, iv) ==
    /\ vaultReady
    /\ fileOps < MaxFileOps
    /\ fileOps' = fileOps + 1
    /\ lastEncrypt' = [path |-> path, readable |-> readOk, at |-> fileOps + 1]
    /\ IF readOk
       THEN /\ blobStore' = [blobStore EXCEPT
                                ![path] = Encrypt(encryptionKey, iv, fileContent[path])]
            /\ blobOrigin' = [blobOrigin EXCEPT
                                ![path] = [key |-> encryptionKey,
                                           plain |-> fileContent[path]]]
            /\ tampered' = tampered \ {path}
            /\ fileContent' = CreateDecoyFile(fileContent, path)
       ELSE UNCHANGED <<blobStore, blobOrigin, tampered, fileContent>>
    /\ UNCHANGED <<encryptionKey, tempFiles, tempDecryptedFiles, lastDecrypt>>
    /\ UNCHANGED <<monitorVars, panicVars, folderVars, logVars>>
    /\ UNCHANGED runtimeVars
    /\ UNCHANGED otherVars

\* part_001:242-261 decryptFile.
DecryptFile(path) ==
    /\ vaultReady
    /\ fileOps < MaxFileOps
    /\ fileOps' = fileOps + 1
    /\ LET decrypted == Decrypt(encryptionKey, blobStore[path])
       IN  IF blobStore[path] = NoBlob
           THEN /\ lastDecrypt' = [path |-> path, result |-> "null",
                                   outcome |-> "no_blob", at |-> fileOps + 1]
                /\ UNCHANGED <<tempFiles, tempDecryptedFiles>>
           ELSE IF ~decrypted.ok
           THEN /\ lastDecrypt' = [path |-> path, result |-> "null",
                                   outcome |-> "auth_failure", at |-> fileOps + 1]
                /\ UNCHANGED <<tempFiles, tempDecryptedFiles>>
           ELSE IF ~OsModuleLoaded
           THEN /\ lastDecrypt' = [path |-> path, result |-> "null",
                                   outcome |-> "plaintext", at |-> fileOps + 1]
                /\ UNCHANGED <<tempFiles, tempDecryptedFiles>>
           ELSE /\ lastDecrypt' = [path |-> path, result |-> "temp",
                                   outcome |-> "plaintext", at |-> fileOps + 1]
                /\ tempFiles' = [tempFiles EXCEPT ![path] = <<decrypted.data>>]
                /\ tempDecryptedFiles' = tempDecryptedFiles \cup {path}
    /\ UNCHANGED <<fileContent, blobStore, encryptionKey, blobOrigin, tampered,
                   lastEncrypt>>
    /\ UNCHANGED <<monitorVars, panicVars, folderVars, logVars>>
    /\ UNCHANGED runtimeVars
    /\ UNCHANGED otherVars

\* Someone modifies one byte of a stored blob: of its IV, its ciphertext or
\* its tag.
TamperBlob(path, part) ==
    /\ fileOps < MaxFileOps
    /\ fileOps' = fileOps + 1
    /\ blobStore[path] # NoBlob
    /\ path \notin tampered
    /\ part = "ct" => blobStore[path].ct # <<>>
    /\ blobStore' = [blobStore EXCEPT ![path] =
          CASE part = "iv"  -> [@ EXCEPT !.iv = 1 - @]
            [] part = "ct"  -> [@ EXCEPT !.ct[1] = (@ + 1) % 256]
            [] part = "tag" -> [@ EXCEPT !.tag = @ + 1]]
    /\ tampered' = tampered \cup {path}
    /\ UNCHANGED <<fileContent, encryptionKey, tempFiles, tempDecryptedFiles,
                   blobOrigin, lastEncrypt, lastDecrypt>>
    /\ UNCHANGED <<monitorVars, panicVars, folderVars, logVars>>
    /\ UNCHANGED runtimeVars
    /\ UNCHANGED otherVars

\* part_001:60-86 initializeEncryptionKey of a later run finds another
\* vault.key: the vault now holds a different key.
ReplaceKey ==
    /\ fileOps < MaxFileOps
    /\ fileOps' = fileOps + 1
    /\ encryptionKey' = 3 - encryptionKey
    /\ UNCHANGED <<fileContent, blobStore, tempFiles, tempDecryptedFiles,
                   blobOrigin, tampered, lastEncrypt, lastDecrypt>>
    /\ UNCHANGED <<monitorVars, panicVars, folderVars, logVars>>
    /\ UNCHANGED runtimeVars
    /\ vaultKeyFile' = 3 - encryptionKey
    /\ UNCHANGED <<loggerKeyFile, loggerKey, firstKeys, starts>>
    /\ UNCHANGED <<scanVars, dataVars>>

\* part_001:495-515 replaceWithDecoys: the files after the sensitive regular
\* files among the immediate children of the folder have been rewritten.
ReplaceWithDecoys(content, folder) ==
    [p \in FilePaths |->
        IF p \in Children(folder) /\ IsFile(p) /\ IsSensitiveFile(p)
        THEN GenerateDecoyContent(p)
        ELSE content[p]]

RECURSIVE ReplaceAll(_, _)
ReplaceAll(content, folders) ==
    IF folders = {} THEN content
    ELSE LET folder == CHOOSE f \in folders : TRUE
         IN  ReplaceAll(ReplaceWithDecoys(content, folder), folders \ {folder})

\* part_001:481-493 activateDecoyFiles: replaceWithDecoys for every protected
\* folder, then the DECOY_FILES_ACTIVATED entry.
ActivateDecoyFiles ==
    /\ vaultReady
    /\ fileOps < MaxFileOps
    /\ fileOps' = fileOps + 1
    /\ fileContent' = ReplaceAll(fileContent, protectedFolders)
    /\ logStore' = AppendLog(logStore, "DECOY_FILES_ACTIVATED")
    /\ UNCHANGED <<blobStore, encryptionKey, tempFiles, tempDecryptedFiles,
                   blobOrigin, tampered, lastEncrypt, lastDecrypt>>
    /\ UNCHANGED <<isLockedDown, panicMode, panicTrigger, panicPc, actRuns,
                   deactRuns, timers, dataDirExists, processAlive, episodes,
                   runsStarted, effects, ladder, ladderStarts, autoDeactivated,
                   activateCalls, deactivateCalls, detections, destructSeen>>
    /\ UNCHANGED <<monitorVars, folderVars, logVars>>
    /\ UNCHANGED runtimeVars
    /\ UNCHANGED otherVars

\* Watch events handled in a run.
MaxWatchEvents == 2

\* The events chokidar reports for files ('all', part_001:150).
WatchEvents == {"add", "change", "unlink"}

\* part_001:143-148 chokidar.watch(folderPath, { depth: 10 }): the paths
\* below a folder.
Below(folder) ==
    Children(folder) \cup
        (IF folder = "/proj" THEN {"/proj/lib.js/c.py"} ELSE {})

\* process.pid
ProcessPid == 1

\* Faulty variant: no access is authorized.
IsAuthorizedAccessNever(path) == FALSE

\* part_001:183-187 isAuthorizedAccess: return process.pid === process.pid
IsAuthorizedAccess(path) == ProcessPid = ProcessPid

\* part_001:189-203 handleUnauthorizedAccess and 205-220 blockFileAccess: the
\* entries they write, a THREAT entry (logThreat) and the
\* FILE_ACCESS_BLOCKED action.
HandleUnauthorizedAccess == <<"THREAT", "FILE_ACCESS_BLOCKED">>

\* part_001:161-181 handleFileEvent, run by the watcher of a folder for an
\* event on a path below it: the authorization check, for an unauthorized
\* access handleUnauthorizedAccess, then the FILE_ACCESS entry
\* (securityLogger.js:236-245). Nothing on this path calls the ThreatMonitor.
HandleFileEvent(event, path) ==
    /\ processAlive
    /\ \E folder \in fileWatchers : path \in Below(folder)
    /\ lastFileEvent.count < MaxWatchEvents
    /\ LET isAuthorized == IsAuthorizedAccess(path)
       IN  lastFileEvent' =
               [event |-> event, path |-> path, isAuthorized |-> isAuthorized,
                wrote |-> (IF isAuthorized THEN <<>> ELSE HandleUnauthorizedAccess)
                             \o <<"FILE_ACCESS">>,
                count |-> lastFileEvent.count + 1]
    /\ UNCHANGED <<monitorVars, panicVars, vaultSide>>
    /\ UNCHANGED runtimeVars
    /\ UNCHANGED <<keyVars, scanVars, otherFiles, configWrites>>

(***************************************************************************)
(* PanicHandler: the steps of activateLockdown, vanishing locks            *)
(***************************************************************************)

\* threatMonitor.js:911-950 encryptAllSensitiveFiles and 982-1013
\* createVanishingLocks visit the same files: the regular files with a
\* sensitive extension (946-950, the list of part_001:518) among the
\* immediate children of the protected folders.
LockdownTargets ==
    {p \in UNION {Children(f) : f \in protectedFolders} :
        IsFile(p) /\ IsSensitiveFile(p)}

\* threatMonitor.js:911-944: vaultManager.encryptFile for every target; the
\* blob is written, the file itself stays as it is (CreateDecoyFile).
EncryptAllSensitiveFiles(iv) ==
    /\ blobStore' = [p \in FilePaths |->
                        IF p \in LockdownTargets
                        THEN Encrypt(encryptionKey, iv, fileContent[p])
                        ELSE blobStore[p]]
    /\ blobOrigin' = [p \in FilePaths |->
                         IF p \in LockdownTargets
                         THEN [key |-> encryptionKey, plain |-> fileContent[p]]
                         ELSE blobOrigin[p]]
    /\ tampered' = tampered \ LockdownTargets

\* part_001:450-478 createVanishingLock for every target (threatMonitor.js:
\* 982-1013): the lock file is written, a 30-second timer is set to remove
\* it, and the lock is entered in vanishingLocks.
CreateVanishingLocks ==
    /\ lockFiles' = lockFiles \cup LockdownTargets
    /\ lockTimers' = [p \in FilePaths |->
                         IF p \in LockdownTargets THEN lockTimers[p] + 1
                                                   ELSE lockTimers[p]]
    /\ vanishingLocks' = vanishingLocks \cup LockdownTargets

\* part_001:463-470: the removal timer of a lock fires: unlink, then the
\* entry is deleted; when the file is already gone unlink throws and the
\* entry stays. All timers of a path have the same delay, so of several
\* pending ones the oldest fires.
VanishingLockExpires(path) ==
    /\ processAlive
    /\ lockTimers[path] > 0
    /\ lockTimers' = [lockTimers EXCEPT ![path] = @ - 1]
    /\ IF path \in lockFiles
       THEN /\ lockFiles' = lockFiles \ {path}
            /\ vanishingLocks' = vanishingLocks \ {path}
       ELSE UNCHANGED <<lockFiles, vanishingLocks>>
    /\ UNCHANGED <<intervals, shutdownPc>>
    /\ UNCHANGED <<monitorVars, panicVars, vaultSide>>
    /\ UNCHANGED otherVars

\* threatMonitor.js:749-769: the run r resumes from its await and runs to the
\* next one: the step it was suspended in has completed. The last step sets
\* the timer and returns to the caller; when the caller is the ladder
\* (threatMonitor.js:722), the ladder goes on.
ActivationStep(r) ==
    /\ processAlive
    /\ r \in actRuns
    /\ effects' = [effects EXCEPT ![r.pc] = @ + 1]
    /\ logStore' = CASE r.pc = "network" -> AppendLog(logStore, "NETWORK_ACCESS_DISABLED")
                     [] r.pc = "decoys"  -> AppendLog(logStore, "DECOY_FILES_ACTIVATED")
                     [] r.pc = "log"     -> AppendLog(logStore, "LOCKDOWN_ACTIVATED")
                     [] OTHER            -> logStore
    /\ IF r.pc = "timer"
       THEN /\ timers' = ScheduleTimer(timers, r.id)
            /\ actRuns' = actRuns \ {r}
            /\ IF r.caller = "panic"
               THEN EnterFakeCrash
               ELSE UNCHANGED <<panicPc, ladder>>
       ELSE /\ actRuns' = (actRuns \ {r}) \cup
                              {[r EXCEPT !.pc = ActPcs[Stage(r.pc) + 1]]}
            /\ UNCHANGED <<timers, panicPc, ladder>>
    /\ UNCHANGED <<isLockedDown, panicMode, panicTrigger, deactRuns,
                   dataDirExists, processAlive, episodes, runsStarted,
                   ladderStarts, autoDeactivated, activateCalls,
                   deactivateCalls, detections>>
    /\ UNCHANGED destructSeen
    /\ IF r.pc = "encrypt"
       THEN \E iv \in IVs : EncryptAllSensitiveFiles(iv)
       ELSE UNCHANGED <<blobStore, blobOrigin, tampered>>
    /\ IF r.pc = "locks"
       THEN CreateVanishingLocks
       ELSE UNCHANGED <<lockFiles, lockTimers, vanishingLocks>>
    /\ fileContent' = IF r.pc = "decoys"
                      THEN ReplaceAll(fileContent, protectedFolders)
                      ELSE fileContent
    /\ UNCHANGED <<encryptionKey, tempFiles, tempDecryptedFiles, lastEncrypt,
                   lastDecrypt, fileOps>>
    /\ UNCHANGED <<intervals, shutdownPc>>
    /\ UNCHANGED <<monitorVars, folderVars, logVars>>
    /\ UNCHANGED otherVars

\* part_001:32 this.ghostFileExtensions
GhostFileExtensions ==
    {".js", ".ts", ".py", ".java", ".cpp", ".h", ".json", ".xml", ".yaml",
     ".yml"}

\* part_001:431-445 generateGhostContent: the marker bytes with the high bit
\* set, represented by the first of them ('G' | 0x80).
GenerateGhostContent(path) == <<199>>

\* part_001:609-628 createGhostFilesForProtectedFolders, 414-429
\* createGhostFile: every sensitive regular file among the children of the
\* protected folders whose extension is a ghost extension is overwritten
\* with the ghost content.
CreateGhostFiles(content) ==
    [p \in FilePaths |->
        IF p \in LockdownTargets /\ ExtName(p) \in GhostFileExtensions
        THEN GenerateGhostContent(p)
        ELSE content[p]]

\* part_000:205-210 handleGenericThreat, part_001:575-589
\* applyStandardProtections: a vanishing lock for every sensitive file of the
\* protected folders, then the ghost files, then the
\* STANDARD_PROTECTIONS_APPLIED entry.
ApplyStandardProtections ==
    /\ processAlive
    /\ fileOps < MaxFileOps
    /\ fileOps' = fileOps + 1
    /\ CreateVanishingLocks
    /\ fileContent' = CreateGhostFiles(fileContent)
    /\ logStore' = AppendLog(logStore, "STANDARD_PROTECTIONS_APPLIED")
    /\ UNCHANGED <<blobStore, encryptionKey, tempFiles, tempDecryptedFiles,
                   blobOrigin, tampered, lastEncrypt, lastDecrypt>>
    /\ UNCHANGED <<isLockedDown, panicMode, panicTrigger, panicPc, actRuns,
                   deactRuns, timers, dataDirExists, processAlive, episodes,
                   runsStarted, effects, ladder, ladderStarts, autoDeactivated,
                   activateCalls, deactivateCalls, detections, destructSeen>>
    /\ UNCHANGED <<intervals, shutdownPc>>
    /\ UNCHANGED <<monitorVars, folderVars, logVars>>
    /\ UNCHANGED otherVars

(***************************************************************************)
(* SecurityLogger: log files and rotation                                  *)
(***************************************************************************)

\* The line feed, and the 'Log file created' entry of createNewLogFile, in
\* the text of a log file; the entries written by writeLogEntry are numbered
\* from 1 within their file.
LineFeed == -1

CreatedEntry == 0

\* securityLogger.js:99-106 createNewLogFile: writeFile(currentLogFile,
\* initialData), the encrypted entry with nothing after it.
NewLogFileContent == <<CreatedEntry>>

\* The number the next entry appended to a file gets.
NextEntry(content) ==
    1 + Cardinality({i \in 1..Len(content) : content[i] = LineFeed})

\* securityLogger.js:279-296 encryptLogEntry returns ivHex + ':' + cipherHex;
\* 271 appendFile(currentLogFile, encryptedData + '\n').
AppendEntry(content, entry) == content \o <<entry, LineFeed>>

\* securityLogger.js:380 content.split('\n').filter(line => line.trim()):
\* the non-empty lines of a file, each the entries written on it.
RECURSIVE SplitLines(_)
SplitLines(content) ==
    IF content = <<>> THEN << <<>> >>
    ELSE LET rest == SplitLines(Tail(content))
         IN  IF Head(content) = LineFeed
             THEN << <<>> >> \o rest
             ELSE << <<Head(content)>> \o Head(rest) >> \o Tail(rest)

NonEmptyLine(line) == line # <<>>

LinesOf(content) == SelectSeq(SplitLines(content), NonEmptyLine)

\* The result of decryptLogEntry for a line it rejects.
NoEntry == -2

\* securityLogger.js:297-317 decryptLogEntry: a line of k entries holds k
\* colons; split(':') must give exactly 2 parts, else null.
DecryptLogEntry(line) ==
    IF Len(line) + 1 # 2 THEN NoEntry ELSE line[1]

\* securityLogger.js:365-401 getAllLogs, for one file: the entries of the
\* lines that decrypt.
GetAllLogs(content) ==
    {DecryptLogEntry(LinesOf(content)[i]) : i \in 1..Len(LinesOf(content))}
        \ {NoEntry}

\* securityLogger.js:259-277 writeLogEntry: the encrypted entry is appended to
\* the current log file (appendFile creates the file when it is missing).
\* The size of the file is not looked at.
WriteLogEntry(size) ==
    /\ activeSize + size <= LogCeiling + ExtraLogSize
    /\ lastAppendBase' = activeSize
    /\ activeSize' = activeSize + size
    /\ activeContent' = AppendEntry(activeContent, NextEntry(activeContent))
    /\ loggerFiles' = loggerFiles \cup {currentLogFile}
    /\ UNCHANGED <<currentLogFile, rotations>>
    /\ UNCHANGED <<monitorVars, panicVars, folderVars, fileVars>>
    /\ UNCHANGED runtimeVars
    /\ UNCHANGED otherVars

\* securityLogger.js:133  stats.size > this.maxLogSize
ExceedsCeiling(size) == size > LogCeiling

\* securityLogger.js:154-176 cleanupOldLogFiles: the files it may delete.
\* The timestamp parsed from a file name is NaN (189-190 turn every '-' of
\* the ISO date into ':', giving an invalid date), so the comparator of the
\* sort returns NaN for every pair; the order is the one readdir returned,
\* which depends on the file system, and the files beyond the first
\* maxLogFiles of it are any set of the right size.
CleanupChoices(files) ==
    {doomed \in SUBSET files :
        Cardinality(doomed) = IF Cardinality(files) > MaxLogFiles
                              THEN Cardinality(files) - MaxLogFiles ELSE 0}

\* securityLogger.js:116-152 the 5-minute interval fires: checkLogRotation,
\* and when the current file exceeds the ceiling rotateLogFile, i.e.
\* createNewLogFile (91-114, a new current file holding the 'Log file
\* created' entry) and cleanupOldLogFiles.
CheckLogRotation(doomed) ==
    /\ rotations < MaxRotations
    /\ currentLogFile \in loggerFiles
    /\ ExceedsCeiling(activeSize)
    /\ doomed \in CleanupChoices(loggerFiles \cup {currentLogFile + 1})
    /\ currentLogFile' = currentLogFile + 1
    /\ loggerFiles' = (loggerFiles \cup {currentLogFile + 1}) \ doomed
    /\ activeSize' = IF currentLogFile + 1 \in doomed THEN 0 ELSE 1
    /\ activeContent' = IF currentLogFile + 1 \in doomed THEN <<>>
                                                          ELSE NewLogFileContent
    /\ rotations' = rotations + 1
    /\ UNCHANGED lastAppendBase
    /\ UNCHANGED <<monitorVars, panicVars, folderVars, fileVars>>
    /\ UNCHANGED runtimeVars
    /\ UNCHANGED otherVars

\* securityLogger.js:96, 106: createNewLogFile has assigned
\* this.currentLogFile and is suspended at await fs.writeFile: the current
\* file is not one that initialize or a completed rotation has created.
CreatingLogFile == currentLogFile > rotations + 1

\* securityLogger.js:123-139, 141-144, 92-106: the 5-minute interval fires and
\* checkLogRotation finds the current file above the ceiling; rotateLogFile
\* calls createNewLogFile, which assigns the new name to this.currentLogFile
\* and is suspended at await fs.writeFile. The new file does not exist yet.
\* (A check that starts while a creation is in flight is left out.)
RotateLogFile ==
    /\ rotations < MaxRotations
    /\ ~CreatingLogFile
    /\ currentLogFile \in loggerFiles
    /\ ExceedsCeiling(activeSize)
    /\ currentLogFile' = currentLogFile + 1
    /\ activeSize' = 0
    /\ activeContent' = <<>>
    /\ UNCHANGED <<loggerFiles, lastAppendBase, rotations>>
    /\ UNCHANGED <<monitorVars, panicVars, folderVars, fileVars>>
    /\ UNCHANGED runtimeVars
    /\ UNCHANGED otherVars

\* securityLogger.js:106, 146-147: the writeFile of createNewLogFile completes:
\* the file is created or truncated (flag 'w') and holds the 'Log file
\* created' entry; then cleanupOldLogFiles.
LogFileCreated(doomed) ==
    /\ CreatingLogFile
    /\ doomed \in CleanupChoices(loggerFiles \cup {currentLogFile})
    /\ loggerFiles' = (loggerFiles \cup {currentLogFile}) \ doomed
    /\ activeSize' = IF currentLogFile \in doomed THEN 0 ELSE 1
    /\ activeContent' = IF currentLogFile \in doomed THEN <<>>
                                                      ELSE NewLogFileContent
    /\ rotations' = rotations + 1
    /\ UNCHANGED <<currentLogFile, lastAppendBase>>
    /\ UNCHANGED <<monitorVars, panicVars, folderVars, fileVars>>
    /\ UNCHANGED runtimeVars
    /\ UNCHANGED otherVars

(***************************************************************************)
(* Encryption keys at process start                                        *)
(***************************************************************************)

\* part_001:71 crypto.randomBytes(this.keyLength), securityLogger.js:75
\* crypto.randomBytes(32): the values a newly generated key may have.
FreshKeys == {1, 2, 3}

\* part_001:65-80, securityLogger.js:69-84: the key a start ends up with.
\* readFile succeeded: the content of the key file. readFile threw, for
\* whatever reason: a newly generated key.
KeyAfterStart(keyFile, readOk, fresh) == IF readOk THEN keyFile ELSE fresh

\* part_001:60-86 VaultManager.initializeEncryptionKey in a later process
\* start: the key file is read; when that fails a new key is generated and
\* written over the key file.
InitializeEncryptionKey(readOk, fresh) ==
    /\ starts["vault"] < MaxStarts
    /\ starts' = [starts EXCEPT !["vault"] = @ + 1]
    /\ encryptionKey' = KeyAfterStart(vaultKeyFile, readOk, fresh)
    /\ vaultKeyFile' = KeyAfterStart(vaultKeyFile, readOk, fresh)
    /\ UNCHANGED <<loggerKeyFile, loggerKey, firstKeys>>
    /\ UNCHANGED <<fileContent, blobStore, tempFiles, tempDecryptedFiles,
                   blobOrigin, tampered, lastEncrypt, lastDecrypt, fileOps>>
    /\ UNCHANGED <<monitorVars, panicVars, folderVars, logVars, runtimeVars>>
    /\ UNCHANGED <<scanVars, dataVars>>

\* securityLogger.js:64-90 SecurityLogger.initializeEncryption in a later
\* process start: the same steps on logger.key.
InitializeEncryption(readOk, fresh) ==
    /\ starts["logger"] < MaxStarts
    /\ starts' = [starts EXCEPT !["logger"] = @ + 1]
    /\ loggerKey' = KeyAfterStart(loggerKeyFile, readOk, fresh)
    /\ loggerKeyFile' = KeyAfterStart(loggerKeyFile, readOk, fresh)
    /\ UNCHANGED <<vaultKeyFile, firstKeys>>
    /\ UNCHANGED <<monitorVars, panicVars, vaultSide, runtimeVars>>
    /\ UNCHANGED <<scanVars, dataVars>>

(***************************************************************************)
(* ThreatMonitor: the security scan                                        *)
(***************************************************************************)

\* threatMonitor.js:26-32 this.suspiciousProcessNames, as sequences of
\* characters.
SuspiciousProcessNames ==
    <<<<"w", "i", "n", "d", "b", "g", ".", "e", "x", "e">>,
      <<"i", "d", "a", ".", "e", "x", "e">>,
      <<"i", "d", "a", "6", "4", ".", "e", "x", "e">>,
      <<"o", "l", "l", "y", "d", "b", "g", ".", "e", "x", "e">>,
      <<"x", "6", "4", "d", "b", "g", ".", "e", "x", "e">>,
      <<"x", "3", "2", "d", "b", "g", ".", "e", "x", "e">>,
      <<"g", "h", "i", "d", "r", "a", ".", "e", "x", "e">>,
      <<"r", "a", "d", "a", "r", "e", "2", ".", "e", "x", "e">>,
      <<"p", "r", "o", "c", "m", "o", "n", ".", "e", "x", "e">>,
      <<"p", "r", "o", "c", "e", "x", "p", ".", "e", "x", "e">>,
      <<"p", "r", "o", "c", "e", "s", "s", "h", "a", "c", "k", "e", "r", ".", "e", "x", "e">>,
      <<"c", "h", "e", "a", "t", "e", "n", "g", "i", "n", "e", ".", "e", "x", "e">>,
      <<"a", "r", "t", "m", "o", "n", "e", "y", ".", "e", "x", "e">>,
      <<"w", "i", "r", "e", "s", "h", "a", "r", "k", ".", "e", "x", "e">>,
      <<"f", "i", "d", "d", "l", "e", "r", ".", "e", "x", "e">>,
      <<"b", "u", "r", "p", "s", "u", "i", "t", "e", ".", "e", "x", "e">>,
      <<"m", "e", "t", "a", "s", "p", "l", "o", "i", "t", ".", "e", "x", "e">>,
      <<"n", "m", "a", "p", ".", "e", "x", "e">>,
      <<"w", "i", "r", "e", "s", "h", "a", "r", "k", ".", "e", "x", "e">>,
      <<"t", "c", "p", "d", "u", "m", "p", ".", "e", "x", "e">>,
      <<"n", "e", "t", "c", "a", "t", ".", "e", "x", "e">>,
      <<"n", "c", ".", "e", "x", "e">>>>

\* threatMonitor.js:35-38 this.excludedProcessNames
ExcludedProcessNames ==
    <<<<"e", "l", "e", "c", "t", "r", "o", "n", ".", "e", "x", "e">>,
      <<"n", "o", "d", "e", ".", "e", "x", "e">>,
      <<"d", "e", "f", "e", "n", "d", "e", "r", " ", "d", "e", "t", "e", "c", "t", "i", "v", "e">>,
      <<"b", "l", "a", "c", "k", " ", "i", "c", "e", " ", "p", "r", "o", "t", "o", "c", "o", "l">>,
      <<"d", "e", "f", "e", "n", "d", "e", "r", "-", "d", "e", "t", "e", "c", "t", "i", "v", "e">>,
      <<"b", "l", "a", "c", "k", "-", "i", "c", "e", "-", "p", "r", "o", "t", "o", "c", "o", "l">>,
      <<"d", "e", "f", "e", "n", "d", "e", "r", "_", "d", "e", "t", "e", "c", "t", "i", "v", "e">>>>

\* threatMonitor.js:41-45 this.suspiciousWindowTitles
SuspiciousWindowTitles ==
    <<<<"o", "l", "l", "y", "d", "b", "g">>,
      <<"i", "d", "a">>,
      <<"w", "i", "n", "d", "b", "g">>,
      <<"x", "6", "4", "d", "b", "g">>,
      <<"g", "h", "i", "d", "r", "a">>,
      <<"r", "a", "d", "a", "r", "e", "2">>,
      <<"p", "r", "o", "c", "e", "s", "s", " ", "m", "o", "n", "i", "t", "o", "r">>,
      <<"p", "r", "o", "c", "e", "s", "s", " ", "e", "x", "p", "l", "o", "r", "e", "r">>,
      <<"c", "h", "e", "a", "t", " ", "e", "n", "g", "i", "n", "e">>,
      <<"a", "r", "t", "m", "o", "n", "e", "y">>,
      <<"w", "i", "r", "e", "s", "h", "a", "r", "k">>,
      <<"f", "i", "d", "d", "l", "e", "r">>,
      <<"b", "u", "r", "p", " ", "s", "u", "i", "t", "e">>>>

\* threatMonitor.js:48-51 this.excludedWindowTitles
ExcludedWindowTitles ==
    <<<<"d", "e", "f", "e", "n", "d", "e", "r", " ", "d", "e", "t", "e", "c", "t", "i", "v", "e">>,
      <<"b", "l", "a", "c", "k", " ", "i", "c", "e", " ", "p", "r", "o", "t", "o", "c", "o", "l">>,
      <<"s", "e", "c", "u", "r", "i", "t", "y", " ", "d", "a", "s", "h", "b", "o", "a", "r", "d">>,
      <<"t", "h", "r", "e", "a", "t", " ", "m", "o", "n", "i", "t", "o", "r">>,
      <<"v", "a", "u", "l", "t", " ", "m", "a", "n", "a", "g", "e", "r">>,
      <<"p", "a", "n", "i", "c", " ", "h", "a", "n", "d", "l", "e", "r">>>>

\* Process names a listing may hold, as tasklist prints them.
ProcessNames ==
    {<<"c", "h", "r", "o", "m", "e", ".", "e", "x", "e">>,
     <<"W", "i", "r", "e", "s", "h", "a", "r", "k", ".", "e", "x", "e">>,
     <<"n", "o", "d", "e", ".", "e", "x", "e", "_", "n", "c", ".", "e", "x", "e">>,
     <<"i", "d", "a", ".", "e", "x", "e", "_", "n", "c", ".", "e", "x", "e">>}

\* Window titles a listing may hold.
WindowTitles ==
    {<<"I", "D", "A", " ", "-", " ", "D", "e", "f", "e", "n", "d", "e", "r", " ", "D", "e", "t", "e", "c", "t", "i", "v", "e">>,
     <<"O", "l", "l", "y", "D", "b", "g", " ", "I", "D", "A">>}

\* String.prototype.toLowerCase on one character (the upper-case letters of
\* the names above).
LowerChar(c) ==
    CASE c = "A" -> "a"
      [] c = "D" -> "d"
      [] c = "I" -> "i"
      [] c = "M" -> "m"
      [] c = "N" -> "n"
      [] c = "O" -> "o"
      [] c = "T" -> "t"
      [] c = "W" -> "w"
      [] OTHER -> c
\* threatMonitor.js:184 const vmProcesses
VmProcesses ==
    <<<<"v", "m", "t", "o", "o", "l", "s", "d", ".", "e", "x", "e">>,
      <<"v", "b", "o", "x", "s", "e", "r", "v", "i", "c", "e", ".", "e", "x", "e">>,
      <<"v", "b", "o", "x", "t", "r", "a", "y", ".", "e", "x", "e">>>>

\* threatMonitor.js:54-57 this.vmStrings holds 9 strings; the system
\* descriptor is represented by the position of the first of them it
\* contains, 0 when it contains none.
VmStringCount == 9

\* String.prototype.toLowerCase
ToLowerCase(s) == [i \in 1..Len(s) |-> LowerChar(s[i])]

\* Faulty variant: no item is excluded.
IsExcludedNever(name, excluded) == FALSE

\* threatMonitor.js:216-222, 268-274: the item's name contains one of the
\* lower-cased excluded patterns.
IsExcluded(name, excluded) ==
    \E i \in 1..Len(excluded) : Includes(name, ToLowerCase(excluded[i]))

\* threatMonitor.js:229-246, 281-297: the position of the first suspicious
\* pattern, in list order, the name contains; 0 when it contains none.
FirstSuspicious(name, suspicious) ==
    IF \E i \in 1..Len(suspicious) : Includes(name, suspicious[i])
    THEN CHOOSE i \in 1..Len(suspicious) :
             /\ Includes(name, suspicious[i])
             /\ \A j \in 1..(i - 1) : ~Includes(name, suspicious[j])
    ELSE 0

\* threatMonitor.js:212-247, 264-298 the body of the loop for one item: the
\* name is lower-cased; an excluded item is skipped; otherwise the first
\* suspicious pattern it contains is reported (0: nothing is reported).
MatchItem(raw, excluded, suspicious) ==
    IF IsExcluded(ToLowerCase(raw), excluded)
    THEN 0
    ELSE FirstSuspicious(ToLowerCase(raw), suspicious)

\* Lists of at most n of the given names.
ListsOf(names, n) == UNION {[1..k -> names] : k \in 0..n}

\* Outcomes of getRunningProcesses / getWindowTitles (threatMonitor.js:
\* 365-404): the exec call fails or not, and the items of its output, which
\* may be partial when the call failed.
Listings(names, n) ==
    {[failed |-> f, items |-> l] : f \in BOOLEAN, l \in ListsOf(names, n)}

\* Faulty variant: the output of a failed call is used.
ItemsOfIgnoringFailure(outcome) == outcome.items

\* threatMonitor.js:368-369, 393-394 reject(error), caught at 249-251 and
\* 300-302: after a failed call no item is looked at.
ItemsOf(outcome) == IF outcome.failed THEN <<>> ELSE outcome.items

\* Entropy values, in tenths (threatMonitor.js:426 a value between 0 and 1).
EntropyValues == {0, 2, 5, 8, 10}

\* threatMonitor.js:312  entropyDiff > 0.5, in tenths.
SpikeThreshold == 5

Abs(x) == IF x < 0 THEN 0 - x ELSE x

\* threatMonitor.js:309, 312
IsSpike(current, baseline) == Abs(current - baseline) > SpikeThreshold

\* Faulty variant: the event is emitted one spike later.
ExceedsSpikeLimitLate(n) == n > 4

\* threatMonitor.js:315  if (this.entropySpikes > 3)
ExceedsSpikeLimit(n) == n > 3

Max(a, b) == IF a > b THEN a ELSE b

\* The variables a step of the scan leaves alone besides the monitor's.
ScanFrame ==
    /\ UNCHANGED <<panicVars, vaultSide, runtimeVars, keyVars, dataVars>>
    /\ UNCHANGED entropyBaseline

\* The pc after the items of a listing: the loop goes on while items are
\* left, then the scan goes to its next check.
AfterItems(items, loopPc, nextPc) == IF items = <<>> THEN nextPc ELSE loopPc

\* threatMonitor.js:84-86, 98-101: the 5-second interval fires and
\* performSecurityScan starts with checkDebuggerAttachment.
ScanStart(limit) ==
    /\ "scan" \in intervals
    /\ scanPc = "idle"
    /\ scans < limit
    /\ scans' = scans + 1
    /\ scanPc' = "debugger"
    /\ UNCHANGED <<scanItems, lastSignal, lastMatch, entropySpikes,
                   spikesSinceReset, lastEntropy>>
    /\ UNCHANGED monitorVars
    /\ ScanFrame

\* threatMonitor.js:135-161 checkDebuggerAttachment: a MEDIUM event when the
\* timed loop took more than 1 ms; then checkSuspiciousProcesses is called
\* and awaits the process listing.
CheckDebuggerAttachment(slow) ==
    /\ scanPc = "debugger"
    /\ scanPc' = "processes"
    /\ IF slow THEN ReportThreatEffect("MEDIUM") ELSE UNCHANGED monitorVars
    /\ UNCHANGED <<scanItems, scans, lastSignal, lastMatch,
                   entropySpikes, spikesSinceReset, lastEntropy>>
    /\ ScanFrame

\* threatMonitor.js:208-210, 249-251: getRunningProcesses resolves or
\* rejects.
GetRunningProcesses(outcome) ==
    /\ scanPc = "processes"
    /\ scanItems' = ItemsOf(outcome)
    /\ scanPc' = AfterItems(ItemsOf(outcome), "matchProcesses", "windows")
    /\ lastSignal' = [source |-> "processes", failed |-> outcome.failed]
    /\ UNCHANGED <<scans, lastMatch, entropySpikes, spikesSinceReset,
                   lastEntropy>>
    /\ UNCHANGED monitorVars
    /\ ScanFrame

\* threatMonitor.js:212-247: one pass of the loop over the processes; a
\* match is reported as a HIGH SUSPICIOUS_PROCESS event.
MatchProcess ==
    /\ scanPc = "matchProcesses"
    /\ scanItems # <<>>
    /\ LET m == MatchItem(Head(scanItems), ExcludedProcessNames,
                          SuspiciousProcessNames)
       IN  /\ lastMatch' = [kind |-> "process", item |-> Head(scanItems),
                            pattern |-> m]
           /\ IF m > 0 THEN ReportThreatEffect("HIGH")
                       ELSE UNCHANGED monitorVars
    /\ scanItems' = Tail(scanItems)
    /\ scanPc' = AfterItems(Tail(scanItems), "matchProcesses", "windows")
    /\ UNCHANGED <<scans, lastSignal, entropySpikes, spikesSinceReset,
                   lastEntropy>>
    /\ ScanFrame

\* threatMonitor.js:260-262, 300-302: getWindowTitles resolves or rejects.
GetWindowTitles(outcome) ==
    /\ scanPc = "windows"
    /\ scanItems' = ItemsOf(outcome)
    /\ scanPc' = AfterItems(ItemsOf(outcome), "matchWindows", "entropy")
    /\ lastSignal' = [source |-> "windows", failed |-> outcome.failed]
    /\ UNCHANGED <<scans, lastMatch, entropySpikes, spikesSinceReset,
                   lastEntropy>>
    /\ UNCHANGED monitorVars
    /\ ScanFrame

\* threatMonitor.js:264-298: one pass of the loop over the windows; a match
\* is reported as a MEDIUM SUSPICIOUS_WINDOW event.
MatchWindow ==
    /\ scanPc = "matchWindows"
    /\ scanItems # <<>>
    /\ LET m == MatchItem(Head(scanItems), ExcludedWindowTitles,
                          SuspiciousWindowTitles)
       IN  /\ lastMatch' = [kind |-> "window", item |-> Head(scanItems),
                            pattern |-> m]
           /\ IF m > 0 THEN ReportThreatEffect("MEDIUM")
                       ELSE UNCHANGED monitorVars
    /\ scanItems' = Tail(scanItems)
    /\ scanPc' = AfterItems(Tail(scanItems), "matchWindows", "entropy")
    /\ UNCHANGED <<scans, lastSignal, entropySpikes, spikesSinceReset,
                   lastEntropy>>
    /\ ScanFrame

\* threatMonitor.js:306-339 checkEntropySpikes, from the resolved entropy
\* value on: the counter is incremented on a spike, and when it then exceeds
\* 3 a MEDIUM ENTROPY_SPIKE event is reported and the counter reset;
\* otherwise it is decremented, not below 0. Then checkVMIndicators is called
\* and awaits the system descriptor.
CheckEntropySpikes(current) ==
    /\ scanPc = "entropy"
    /\ scanPc' = "vm"
    /\ IF IsSpike(current, entropyBaseline)
       THEN IF ExceedsSpikeLimit(entropySpikes + 1)
            THEN /\ ReportThreatEffect("MEDIUM")
                 /\ entropySpikes' = 0
                 /\ spikesSinceReset' = 0
                 /\ lastEntropy' = [current |-> current, emitted |-> TRUE,
                                    observed |-> spikesSinceReset + 1]
            ELSE /\ UNCHANGED monitorVars
                 /\ entropySpikes' = entropySpikes + 1
                 /\ spikesSinceReset' = spikesSinceReset + 1
                 /\ lastEntropy' = [current |-> current, emitted |-> FALSE,
                                    observed |-> spikesSinceReset + 1]
       ELSE /\ UNCHANGED monitorVars
            /\ entropySpikes' = Max(0, entropySpikes - 1)
            /\ UNCHANGED spikesSinceReset
            /\ lastEntropy' = [current |-> current, emitted |-> FALSE,
                               observed |-> spikesSinceReset]
    /\ UNCHANGED <<scanItems, scans, lastSignal, lastMatch>>
    /\ ScanFrame

\* threatMonitor.js:164-181, 197-199: getSystemInfo resolves or rejects. A
\* descriptor that contains a VM string is reported as a MEDIUM VM_DETECTED
\* event, and the loop over vmProcesses starts; a rejection ends the check,
\* and with it the scan.
GetSystemInfo(failed, indicator) ==
    /\ scanPc = "vm"
    /\ lastSignal' = [source |-> "systeminfo", failed |-> failed]
    /\ IF failed
       THEN /\ scanPc' = "idle"
            /\ scanItems' = <<>>
            /\ UNCHANGED monitorVars
       ELSE /\ scanPc' = "vmProcesses"
            /\ scanItems' = VmProcesses
            /\ IF indicator > 0 THEN ReportThreatEffect("MEDIUM")
                                ELSE UNCHANGED monitorVars
    /\ UNCHANGED <<scans, lastMatch, entropySpikes, spikesSinceReset,
                   lastEntropy>>
    /\ ScanFrame

\* threatMonitor.js:185-195, 406-413: isProcessRunning for the next VM
\* process: a listing of its own; false when the listing fails; a running VM
\* process is reported as a MEDIUM VM_DETECTED event. After the last one the
\* scan is complete.
IsProcessRunning(outcome) ==
    /\ scanPc = "vmProcesses"
    /\ scanItems # <<>>
    /\ lastSignal' = [source |-> "processes", failed |-> outcome.failed]
    /\ IF \E i \in 1..Len(ItemsOf(outcome)) :
              Includes(ToLowerCase(ItemsOf(outcome)[i]),
                       ToLowerCase(Head(scanItems)))
       THEN ReportThreatEffect("MEDIUM")
       ELSE UNCHANGED monitorVars
    /\ scanItems' = Tail(scanItems)
    /\ scanPc' = AfterItems(Tail(scanItems), "vmProcesses", "idle")
    /\ UNCHANGED <<scans, lastMatch, entropySpikes, spikesSinceReset,
                   lastEntropy>>
    /\ ScanFrame

(***************************************************************************)
(* Shutdown: app.on('before-quit')                                         *)
(***************************************************************************)

\* The steps of the 'before-quit' handler (part_000:426-443), in order: it
\* awaits threatMonitor.shutdown, vaultManager.shutdown and
\* securityLogger.shutdown; panicHandler.shutdown is not called.
ShutdownPcs == <<"running", "monitor", "vault", "logger", "done">>

\* part_000:429-431, threatMonitor.js:487-498 ThreatMonitor.shutdown:
\* isRunning = false and clearInterval(this.monitoringInterval), the only
\* clearInterval or clearTimeout of the program.
ShutdownMonitor ==
    /\ processAlive
    /\ shutdownPc = "running"
    /\ shutdownPc' = "monitor"
    /\ isRunning' = FALSE
    /\ intervals' = intervals \ {"scan"}
    /\ UNCHANGED <<recentThreats, securityLevel, subscribed, mainIsLockedDown,
                   mainPanicMode, handlerLogging, threatLog, dispatched,
                   reported, levelEvents, handlerWrote>>
    /\ UNCHANGED <<vanishingLocks, lockFiles, lockTimers>>
    /\ UNCHANGED <<panicVars, vaultSide>>
    /\ UNCHANGED otherVars

\* part_000:432-434, part_001:696-719 VaultManager.shutdown: every watcher in
\* fileWatchers is closed and the map cleared; cleanupTempFiles (678-694)
\* unlinks the tracked temp files and clears the map; every tracked lock file
\* is unlinked and vanishingLocks cleared.
ShutdownVault ==
    /\ processAlive
    /\ shutdownPc = "monitor"
    /\ shutdownPc' = "vault"
    /\ fileWatchers' = {}
    /\ openWatchers' = [f \in Folders |->
                           IF f \in fileWatchers THEN openWatchers[f] - 1
                                                  ELSE openWatchers[f]]
    /\ tempFiles' = [p \in FilePaths |->
                        IF p \in tempDecryptedFiles THEN <<>> ELSE tempFiles[p]]
    /\ tempDecryptedFiles' = {}
    /\ lockFiles' = lockFiles \ vanishingLocks
    /\ vanishingLocks' = {}
    /\ UNCHANGED <<vaultReady, protectedFolders, persistedFolders, pendingSaves,
                   registered, watchFailed, savesOk, saveErrors, folderCommands,
                   lastCommand>>
    /\ UNCHANGED <<fileContent, blobStore, encryptionKey, blobOrigin, tampered,
                   lastEncrypt, lastDecrypt, fileOps>>
    /\ UNCHANGED <<intervals, lockTimers>>
    /\ UNCHANGED <<monitorVars, panicVars, logVars>>
    /\ UNCHANGED otherVars

\* part_000:435-437, securityLogger.js:614-621 SecurityLogger.shutdown: a
\* last checkLogRotation; the handler then returns.
ShutdownLogger(doomed) ==
    /\ processAlive
    /\ shutdownPc = "vault"
    /\ shutdownPc' = "done"
    /\ IF currentLogFile \in loggerFiles /\ ExceedsCeiling(activeSize)
       THEN /\ doomed \in CleanupChoices(loggerFiles \cup {currentLogFile + 1})
            /\ currentLogFile' = currentLogFile + 1
            /\ loggerFiles' = (loggerFiles \cup {currentLogFile + 1}) \ doomed
            /\ activeSize' = IF currentLogFile + 1 \in doomed THEN 0 ELSE 1
            /\ activeContent' = IF currentLogFile + 1 \in doomed
                                THEN <<>> ELSE NewLogFileContent
            /\ rotations' = rotations + 1
            /\ UNCHANGED lastAppendBase
       ELSE /\ doomed = {}
            /\ UNCHANGED logVars
    /\ UNCHANGED <<intervals, vanishingLocks, lockFiles, lockTimers>>
    /\ UNCHANGED <<monitorVars, panicVars, folderVars, fileVars>>
    /\ UNCHANGED otherVars

(***************************************************************************)
(* Specifications                                                          *)
(***************************************************************************)

\* threatMonitor.js:12-58 ThreatMonitor constructor; part_000:66.
MonitorInit ==
    /\ isRunning = FALSE
    /\ recentThreats = <<>>
    /\ securityLevel = "GREEN"
    /\ subscribed = FALSE
    /\ mainIsLockedDown = FALSE
    /\ mainPanicMode = FALSE
    /\ handlerLogging = {}
    /\ threatLog = <<>>
    /\ dispatched = <<>>
    /\ reported = <<>>
    /\ levelEvents = <<>>
    /\ handlerWrote = "NONE"

\* threatMonitor.js:513-539 PanicHandler constructor; part_000:65-68.
PanicInit ==
    /\ isLockedDown = FALSE
    /\ panicMode = FALSE
    /\ panicTrigger = "NONE"
    /\ panicPc = "idle"
    /\ actRuns = {}
    /\ deactRuns = [p \in Range(DeactPcs) |-> 0]
    /\ timers = {}
    /\ logStore = EmptyLog
    /\ dataDirExists = TRUE
    /\ processAlive = TRUE
    /\ episodes = 0
    /\ runsStarted = 0
    /\ effects = [op \in EffectOps |-> 0]
    /\ ladder = <<>>
    /\ ladderStarts = 0
    /\ autoDeactivated = 0
    /\ activateCalls = 0
    /\ deactivateCalls = 0
    /\ detections = 0
    /\ destructSeen = FALSE

\* part_001:11-33 VaultManager constructor, with the list an earlier run has
\* left behind in protected_folders.json.
FolderInit(earlier) ==
    /\ vaultReady = FALSE
    /\ protectedFolders = {}
    /\ fileWatchers = {}
    /\ openWatchers = [f \in Folders |-> 0]
    /\ persistedFolders = earlier
    /\ pendingSaves = 0
    /\ registered = persistedFolders
    /\ watchFailed = {}
    /\ savesOk = 0
    /\ saveErrors = 0
    /\ folderCommands = 0
    /\ lastCommand = [op |-> "none", path |-> "none"]

\* The files of the run, a.py with the given content, no blob yet.
FileInit(plain) ==
    /\ fileContent = [p \in FilePaths |-> IF p = "/proj/a.py" THEN plain ELSE <<1>>]
    /\ blobStore = [p \in FilePaths |-> NoBlob]
    /\ encryptionKey = 1
    /\ tempFiles = [p \in FilePaths |-> <<>>]
    /\ tempDecryptedFiles = {}
    /\ blobOrigin = [p \in FilePaths |-> [key |-> 0, plain |-> <<>>]]
    /\ tampered = {}
    /\ lastEncrypt = [path |-> "none", readable |-> FALSE, at |-> 0]
    /\ lastDecrypt = [path |-> "none", result |-> "none", outcome |-> "none",
                      at |-> 0]
    /\ fileOps = 0

\* securityLogger.js:26-48 initialize has run: the first log file holds the
\* 'Log file created' entry.
LoggerInit ==
    /\ loggerFiles = {1}
    /\ currentLogFile = 1
    /\ activeSize = 1
    /\ activeContent = NewLogFileContent
    /\ lastAppendBase = 0
    /\ rotations = 0

\* securityLogger.js:116-121 setupLogRotation has set the 5-minute interval
\* (initialize has run, see LoggerInit); no lock exists; the application has
\* not been asked to quit.
RuntimeInit ==
    /\ intervals = {"rotation"}
    /\ vanishingLocks = {}
    /\ lockFiles = {}
    /\ lockTimers = [p \in FilePaths |-> 0]
    /\ shutdownPc = "running"

\* The first start has generated both keys and written them to the key
\* files (part_001:70-79, securityLogger.js:74-83).
KeyInit ==
    /\ vaultKeyFile = encryptionKey
    /\ loggerKeyFile = 1
    /\ loggerKey = 1
    /\ firstKeys = [vault |-> encryptionKey, logger |-> 1]
    /\ starts = [vault |-> 0, logger |-> 0]

\* threatMonitor.js:22-23 the constructor's counter, and the baseline that
\* initialize has computed (65); no scan is running.
ScannerInit(baseline) ==
    /\ entropyBaseline = baseline
    /\ entropySpikes = 0
    /\ scanPc = "idle"
    /\ scanItems = <<>>
    /\ scans = 0
    /\ lastSignal = [source |-> "none", failed |-> FALSE]
    /\ lastMatch = [kind |-> "none", item |-> <<>>, pattern |-> 0]
    /\ spikesSinceReset = 0
    /\ lastEntropy = [current |-> baseline, emitted |-> FALSE, observed |-> 0]

\* Nothing lies about in os.tmpdir(), the cache or the log directory.
DataInit ==
    /\ otherFiles = {}
    /\ configWrites = {}
    /\ lastFileEvent = [event |-> "none", path |-> "none", isAuthorized |-> TRUE,
                        wrote |-> <<>>, count |-> 0]

\* A first run: nothing has been persisted yet.
Init ==
    /\ MonitorInit
    /\ PanicInit
    /\ FolderInit({})
    /\ FileInit(<<1>>)
    /\ LoggerInit
    /\ RuntimeInit
    /\ KeyInit
    /\ DataInit
    /\ ScannerInit(0)

\* A run that finds the folder list of an earlier run.
VaultInit ==
    /\ MonitorInit
    /\ PanicInit
    /\ \E earlier \in SUBSET Folders : FolderInit(earlier)
    /\ FileInit(<<1>>)
    /\ LoggerInit
    /\ RuntimeInit
    /\ KeyInit
    /\ DataInit
    /\ ScannerInit(0)

\* The ThreatMonitor and the main process's level.
Next ==
    \/ StartMonitoring
    \/ Subscribe
    \/ \E sev \in Severities : ReportThreat(sev)

Spec == Init /\ [][Next]_vars

\* The steps the runtime takes by itself: resumed awaits and fired timers.
PanicInternal ==
    \/ \E r \in actRuns : ActivationStep(r)
    \/ \E p \in Range(DeactPcs) : DeactivationStep(p)
    \/ \E id \in timers : TimerFires(id)
    \/ LadderLogged
    \/ LadderWiped
    \/ LadderCrashed
    \/ LadderWipedAll
    \/ LadderExit

\* The PanicHandler under external commands and detected passphrases.
PanicNext ==
    \/ IpcActivateLockdown
    \/ IpcDeactivateLockdown
    \/ \E input \in PanicInputs : DetectPanicWords(input)
    \/ PanicInternal

PanicSpec == Init /\ [][PanicNext]_vars

\* Every pending I/O completes and every pending timer fires.
FairPanicSpec == PanicSpec /\ WF_vars(PanicInternal)

\* The VaultManager's protected folders under add / remove commands.
VaultNext ==
    \/ \E readOk \in BOOLEAN, failing \in SUBSET Folders :
           InitializeVault(readOk, failing)
    \/ \E raw \in RawPaths, watchOk \in BOOLEAN : AddProtectedFolder(raw, watchOk)
    \/ \E raw \in RawPaths : RemoveProtectedFolder(raw)
    \/ \E writeOk \in BOOLEAN : SaveProtectedFolders(writeOk)

VaultSpec == VaultInit /\ [][VaultNext]_vars

\* An initialized vault that protects the given folders.
FolderReady(folders) ==
    /\ vaultReady = TRUE
    /\ protectedFolders = folders
    /\ fileWatchers = folders
    /\ openWatchers = [f \in Folders |-> IF f \in folders THEN 1 ELSE 0]
    /\ persistedFolders = folders
    /\ pendingSaves = 0
    /\ registered = folders
    /\ watchFailed = {}
    /\ savesOk = 0
    /\ saveErrors = 0
    /\ folderCommands = 0
    /\ lastCommand = [op |-> "none", path |-> "none"]

FileSpecInit ==
    /\ MonitorInit
    /\ PanicInit
    /\ \E folders \in SUBSET Folders : FolderReady(folders)
    /\ \E plain \in Plaintexts : FileInit(plain)
    /\ LoggerInit
    /\ RuntimeInit
    /\ KeyInit
    /\ DataInit
    /\ ScannerInit(0)

\* The VaultManager's file operations, with blobs tampered with and the key
\* replaced from outside.
FileNext ==
    \/ \E path \in FilePaths, readOk \in BOOLEAN, iv \in IVs :
           EncryptFile(path, readOk, iv)
    \/ \E path \in FilePaths : DecryptFile(path)
    \/ \E path \in FilePaths, part \in {"iv", "ct", "tag"} : TamperBlob(path, part)
    \/ ReplaceKey
    \/ ActivateDecoyFiles

FileSpec == FileSpecInit /\ [][FileNext]_vars

\* The SecurityLogger's log files under appended entries and the rotation
\* interval.
LogNext ==
    \/ \E size \in EntrySizes : WriteLogEntry(size)
    \/ \E doomed \in SUBSET (1..(MaxRotations + 1)) : CheckLogRotation(doomed)

LogSpec == Init /\ [][LogNext]_vars

\* An entropy value of a system at rest, in tenths.
QuietEntropy == 2

\* The periodic scan under the signals of the environment.
ScanInit ==
    /\ MonitorInit
    /\ PanicInit
    /\ FolderInit({})
    /\ FileInit(<<1>>)
    /\ LoggerInit
    /\ RuntimeInit
    /\ KeyInit
    /\ DataInit
    /\ ScannerInit(QuietEntropy)

ScanNext ==
    \/ StartMonitoring
    \/ ScanStart(MaxScans)
    \/ \E slow \in BOOLEAN : CheckDebuggerAttachment(slow)
    \/ \E outcome \in Listings(ProcessNames, MaxListed) :
           GetRunningProcesses(outcome)
    \/ MatchProcess
    \/ \E outcome \in Listings(WindowTitles, MaxListed) :
           GetWindowTitles(outcome)
    \/ MatchWindow
    \/ CheckEntropySpikes(QuietEntropy)
    \/ \E failed \in BOOLEAN, indicator \in {0, VmStringCount} :
           GetSystemInfo(failed, indicator)
    \/ \E outcome \in Listings({VmProcesses[1]}, 1) : IsProcessRunning(outcome)

ScanSpec == ScanInit /\ [][ScanNext]_vars

\* A listing that succeeds and holds the one given name.
ListingOf(name) == [failed |-> FALSE, items |-> <<name>>]

\* The periodic scan on a system whose entropy varies while nothing else is
\* found: the baseline is any value initialize may have computed.
EntropyInit ==
    /\ MonitorInit
    /\ PanicInit
    /\ FolderInit({})
    /\ FileInit(<<1>>)
    /\ LoggerInit
    /\ RuntimeInit
    /\ KeyInit
    /\ DataInit
    /\ \E baseline \in EntropyValues : ScannerInit(baseline)

EntropyNext ==
    \/ StartMonitoring
    \/ ScanStart(MaxEntropyChecks)
    \/ CheckDebuggerAttachment(FALSE)
    \/ GetRunningProcesses(ListingOf(<<"c", "h", "r", "o", "m", "e">>))
    \/ MatchProcess
    \/ GetWindowTitles(ListingOf(<<"N", "o", "t", "e", "p", "a", "d">>))
    \/ MatchWindow
    \/ \E current \in EntropyValues : CheckEntropySpikes(current)
    \/ GetSystemInfo(TRUE, 0)

EntropySpec == EntropyInit /\ [][EntropyNext]_vars

\* The main process's handling of reported threats: reports, and the
\* completion of the log appends of the suspended handler runs.
HandlerNext ==
    \/ StartMonitoring
    \/ Subscribe
    \/ \E sev \in Severities :
           Len(reported) < MaxHandledReports /\ ReportThreat(sev)
    \/ \E id \in handlerLogging : ThreatLogged(id)

HandlerSpec == Init /\ [][HandlerNext]_vars

\* A run of the application with protected folders: monitoring starts,
\* lockdowns are activated and deactivated, locks expire, and the application
\* is asked to quit.
LifecycleInit ==
    /\ MonitorInit
    /\ PanicInit
    /\ \E folders \in SUBSET Folders : FolderReady(folders)
    /\ FileInit(<<1>>)
    /\ LoggerInit
    /\ RuntimeInit
    /\ KeyInit
    /\ DataInit
    /\ ScannerInit(0)

LifecycleNext ==
    \/ StartMonitoring
    \/ IpcActivateLockdown
    \/ IpcDeactivateLockdown
    \/ \E r \in actRuns : ActivationStep(r)
    \/ \E p \in Range(DeactPcs) : DeactivationStep(p)
    \/ \E id \in timers : TimerFires(id)
    \/ \E path \in FilePaths : VanishingLockExpires(path)
    \/ ShutdownMonitor
    \/ ShutdownVault
    \/ \E doomed \in SUBSET (1..(MaxRotations + 1)) : ShutdownLogger(doomed)

LifecycleSpec == LifecycleInit /\ [][LifecycleNext]_vars

\* The countermeasures the main process dispatches on threats (part_000:
\* 148-153, 205-210) together with lockdowns, the timers they set, and the
\* first steps of shutdown.
ProtectionNext ==
    \/ ApplyStandardProtections
    \/ ActivateDecoyFiles
    \/ IpcActivateLockdown
    \/ IpcDeactivateLockdown
    \/ \E r \in actRuns : ActivationStep(r)
    \/ \E p \in Range(DeactPcs) : DeactivationStep(p)
    \/ \E id \in timers : TimerFires(id)
    \/ \E path \in FilePaths : VanishingLockExpires(path)
    \/ ShutdownMonitor
    \/ ShutdownVault

ProtectionSpec == LifecycleInit /\ [][ProtectionNext]_vars

\* Later starts of the process: each component loads its key; in between
\* the vault encrypts a.py.
\* The VaultManager's protected folders under add / remove commands whose
\* saves overlap and whose writes succeed.
SaveNext ==
    \/ \E readOk \in BOOLEAN, failing \in SUBSET Folders :
           InitializeVault(readOk, failing)
    \/ \E raw \in RawPaths, watchOk \in BOOLEAN : AddProtectedFolder(raw, watchOk)
    \/ \E raw \in RawPaths : RemoveProtectedFolder(raw)
    \/ SerializeProtectedFolders
    \/ \E folders \in configWrites : ConfigWritten(folders)

SaveSpec == VaultInit /\ [][SaveNext]_vars

\* The watchers of the protected folders report events while monitoring
\* runs and threats are reported.
WatchNext ==
    \/ StartMonitoring
    \/ Subscribe
    \/ \E sev \in Severities :
           Len(reported) < MaxWatchEvents /\ ReportThreat(sev)
    \/ \E event \in WatchEvents, path \in FilePaths \cup DirPaths :
           HandleFileEvent(event, path)

WatchSpec == LifecycleInit /\ [][WatchNext]_vars

\* The SecurityLogger's log files under appended entries, with the rotation
\* in its steps: an entry may be written while the new file is being created.
RotationNext ==
    \/ \E size \in EntrySizes : WriteLogEntry(size)
    \/ RotateLogFile
    \/ \E doomed \in CleanupChoices(loggerFiles \cup {currentLogFile}) :
           LogFileCreated(doomed)

RotationSpec == Init /\ [][RotationNext]_vars

\* Inputs that hold one passphrase, not the destruct sequence.
GenericInputs ==
    {input \in PanicInputs :
        Cardinality(input) = 1 /\ ~IsDestructTrigger(FirstPassphrase(input))}

\* Rotations in a run of the wipe.
MaxWipeRotations == 2

\* A run whose directories hold other files besides the application's.
WipeInit ==
    /\ MonitorInit
    /\ PanicInit
    /\ \E earlier \in {{}, Folders} : FolderInit(earlier)
    /\ FileInit(<<1>>)
    /\ LoggerInit
    /\ RuntimeInit
    /\ KeyInit
    /\ ScannerInit(0)
    /\ otherFiles \in {{}, LitterFiles}
    /\ configWrites = {}
    /\ lastFileEvent = [event |-> "none", path |-> "none", isAuthorized |-> TRUE,
                        wrote |-> <<>>, count |-> 0]

\* Log entries are written and log files rotated; a generic passphrase is
\* detected and the emergency procedures run up to the lockdown.
WipeNext ==
    \/ \E size \in EntrySizes : WriteLogEntry(size)
    \/ \E doomed \in CleanupChoices(loggerFiles \cup {currentLogFile + 1}) :
           rotations < MaxWipeRotations /\ CheckLogRotation(doomed)
    \/ \E input \in GenericInputs : DetectPanicWords(input)
    \/ LadderLogged
    \/ LadderWiped

WipeSpec == WipeInit /\ [][WipeNext]_vars

KeyNext ==
    \/ \E readOk \in BOOLEAN, fresh \in FreshKeys :
           InitializeEncryptionKey(readOk, fresh)
    \/ \E readOk \in BOOLEAN, fresh \in FreshKeys :
           InitializeEncryption(readOk, fresh)
    \/ \E readOk \in BOOLEAN, iv \in IVs : EncryptFile("/proj/a.py", readOk, iv)

KeySpec == LifecycleInit /\ [][KeyNext]_vars

(***************************************************************************)
(* Claims about the ThreatMonitor and the main process's level             *)
(***************************************************************************)

SeveritiesOf(s) == [i \in 1..Len(s) |-> s[i].severity]

MediumCount(h) == Cardinality({i \in 1..Len(h) : h[i].severity = "MEDIUM"})

AnyHigh(h) == \E i \in 1..Len(h) : h[i].severity = "HIGH"

\* C1: after every reportThreat, the level just emitted as
\* 'security-level-changed' is RED if the current window holds a HIGH event,
\* otherwise YELLOW if it holds more than 2 MEDIUM events or more than 5 events,
\* otherwise GREEN.
C1_LevelIsFunctionOfWindow ==
    levelEvents # <<>> =>
        /\ Len(levelEvents) = Len(reported)
        /\ Last(levelEvents) =
              IF AnyHigh(recentThreats) THEN "RED"
              ELSE IF MediumCount(recentThreats) > 2 \/ Len(recentThreats) > 5
                   THEN "YELLOW"
              ELSE "GREEN"

\* All three levels have been emitted, and the current one is YELLOW only
\* because the window holds more than 5 events.
C1_Witness ==
    /\ Levels \subseteq Range(levelEvents)
    /\ Last(levelEvents) = "YELLOW"
    /\ MediumCount(recentThreats) <= 2
    /\ ~AnyHigh(recentThreats)

\* C2 (as claimed): reporting MEDIUM, MEDIUM, MEDIUM, HIGH into an empty
\* history emits the levels GREEN, YELLOW, YELLOW, RED.
C2_ScenarioAsClaimed ==
    SeveritiesOf(reported) = <<"MEDIUM", "MEDIUM", "MEDIUM", "HIGH">>
        => levelEvents = <<"GREEN", "YELLOW", "YELLOW", "RED">>

\* C2 (amended): reporting MEDIUM, MEDIUM, MEDIUM, HIGH into an empty history
\* emits the levels GREEN, GREEN, YELLOW, RED: two MEDIUM events are not more
\* than 2.
C2_ScenarioAmended ==
    SeveritiesOf(reported) = <<"MEDIUM", "MEDIUM", "MEDIUM", "HIGH">>
        => levelEvents = <<"GREEN", "GREEN", "YELLOW", "RED">>

C2_Witness ==
    /\ SeveritiesOf(reported) = <<"MEDIUM", "MEDIUM", "MEDIUM", "HIGH">>
    /\ Len(levelEvents) = 4

\* C3: the history never holds more than 100 events; after n reports it holds
\* exactly the min(n, 100) most recently reported events, newest first, so
\* every report is appended and only the oldest event is ever evicted.
C3_HistoryIsLastHundred ==
    LET n == Len(reported)
    IN  /\ Len(recentThreats) <= 100
        /\ Len(recentThreats) = IF n < 100 THEN n ELSE 100
        /\ \A i \in 1..Len(recentThreats) : recentThreats[i] = reported[n - i + 1]

\* Two events have been evicted from a full history.
C3_Witness ==
    /\ Len(reported) = HistoryCapacity + 2
    /\ Len(recentThreats) = HistoryCapacity
    /\ reported[1] \notin Range(recentThreats)

\* C4: the main process's securityLevel always equals the derivation applied
\* to the monitor's current history, and the threat-detected handler never
\* assigns a level that differs from that derivation.
C4_NoHiddenState ==
    /\ securityLevel = DeriveLevel(recentThreats)
    /\ handlerWrote # "NONE" => handlerWrote = DeriveLevel(recentThreats)

DestructPassphrase == "SELF_DESTRUCT_SEQUENCE"

GenericPassphrases == Range(EmergencyPassphrases) \ {DestructPassphrase}

FullLadder == <<"WIPE", "LOCKDOWN", "FAKE_CRASH", "SELF_OBLITERATE">>

\* Episodes whose activation has got past the step op.
PassedBy(op) ==
    episodes - Cardinality({r \in actRuns : Stage(r.pc) <= Stage(op)})

\* C6: activateLockdown is idempotent. An activate-lockdown command that
\* arrives while isLockedDown is set changes nothing, and per lockdown episode
\* (a change of isLockedDown from false to true) the encryption pass, the
\* network-disable, the vanishing-lock creation, the decoy activation, the
\* LOCKDOWN_ACTIVATED entry and the scheduling of the timer each happen exactly
\* once, when the activation reaches that step.
C6_ActivateLockdownIdempotent ==
    /\ [](/\ runsStarted = episodes
          /\ \A op \in EffectOps : effects[op] = PassedBy(op)
          /\ dataDirExists => logStore["LOCKDOWN_ACTIVATED"] = effects["log"])
    /\ [][ (activateCalls' # activateCalls /\ isLockedDown)
              => UNCHANGED <<isLockedDown, actRuns, deactRuns, timers,
                             logStore, effects, episodes, runsStarted>> ]_vars

\* The IPC command and the ladder have both called activateLockdown, nothing
\* has deactivated, and the single activation run is still suspended.
C6_Witness ==
    /\ activateCalls = 1
    /\ "LOCKDOWN" \in Range(ladder)
    /\ deactivateCalls = 0
    /\ autoDeactivated = 0
    /\ runsStarted = 1
    /\ \E r \in actRuns : r.pc = "decoys"

\* C7: a manual deactivateLockdown made before the timer fires leaves no
\* deactivation timer pending, a timer never fires when lockdown is not
\* active, and there are never more LOCKDOWN_DEACTIVATED entries than
\* lockdown activations.
C7_DeactivationCancelsTimer ==
    /\ [][ (deactivateCalls' # deactivateCalls /\ isLockedDown)
              => timers' = {} ]_vars
    /\ [][ timers' # timers /\ timers' \subseteq timers => isLockedDown ]_vars
    /\ [](logStore["LOCKDOWN_DEACTIVATED"] <= episodes)

\* C8 (as claimed): every lockdown that is activated is eventually
\* deactivated.
C8_EventuallyDeactivated == isLockedDown ~> ~isLockedDown

\* C8 (amended): every lockdown that is activated is eventually deactivated,
\* unless the process is terminated first.
C8_EventuallyDeactivatedWhileAlive ==
    isLockedDown ~> (~isLockedDown \/ ~processAlive)

\* A lockdown has been ended by its timer, with no manual deactivation.
C8_Witness ==
    /\ autoDeactivated >= 1
    /\ deactivateCalls = 0
    /\ ~isLockedDown
    /\ timers = {}
    /\ processAlive

C11_DestructTerminates == destructSeen ~> ~processAlive

\* The log store holds an entry under one of the action names.
Logged(actions) == \E a \in actions : logStore[a] >= 1

\* C12: the log store holds an entry for every countermeasure step that has
\* been executed: the sensitive-data wipe, network disable and enable,
\* vanishing-lock creation, decoy activation, lockdown activation and
\* deactivation, the fake crash and self-obliteration.
C12_EveryActionLogged ==
    /\ Len(ladder) >= 2 => Logged(WipeLogActions)
    /\ effects["network"] >= 1 => Logged({"NETWORK_ACCESS_DISABLED"})
    /\ effects["locks"] >= 1 => Logged(VanishingLockLogActions)
    /\ effects["decoys"] >= 1 => Logged({"DECOY_FILES_ACTIVATED"})
    /\ effects["log"] >= 1 => Logged({"LOCKDOWN_ACTIVATED"})
    /\ panicPc \in {"done", "obliterate", "exit", "exited"}
          => Logged({"FAKE_CRASH_EXECUTED"})
    /\ ~processAlive => Logged({"SELF_OBLITERATION_COMPLETE"})

IsIncreasing(s) == \A i, j \in 1..Len(s) : i < j => s[i] < s[j]

\* C26: threats are processed in emission order: the threat entries of the
\* log file and the dispatched countermeasures follow the order in which the
\* threats were reported, also for threats reported while the handling of an
\* earlier one is suspended.
C26_ProcessedInEmissionOrder ==
    /\ IsIncreasing(threatLog)
    /\ IsIncreasing(dispatched)

\* The newest events reported, newest first, at most 20 of them.
NewestReported ==
    LET n == IF Len(reported) < RecentThreatsLimit THEN Len(reported)
                                                   ELSE RecentThreatsLimit
    IN  [i \in 1..n |-> reported[Len(reported) + 1 - i]]

\* C23: in every state the status returned by get-security-status carries
\* the PanicHandler's lockdown flag, its panic flag, the current level of the
\* monitor (the last one it emitted to the subscribed main process), and the
\* newest reported events, newest first, at most 20.
C23_StatusReportsCurrentState ==
    /\ GetSecurityStatus.isLockedDown = isLockedDown
    /\ GetSecurityStatus.panicMode = panicMode
    /\ handlerWrote # "NONE" => GetSecurityStatus.level = Last(levelEvents)
    /\ GetSecurityStatus.threats = NewestReported

\* C24: once the shutdown sequence has completed no timer is pending (scan,
\* debugger-timing and log-rotation intervals, lockdown auto-deactivation,
\* vanishing-lock expiry), no watch is open, no tracked temp file and no
\* tracked vanishing lock is left.
C24_ShutdownLeavesNothingPending ==
    shutdownPc = "done" =>
        /\ intervals = {}
        /\ timers = {}
        /\ \A p \in FilePaths : lockTimers[p] = 0
        /\ fileWatchers = {}
        /\ \A f \in Folders : openWatchers[f] = 0
        /\ tempDecryptedFiles = {}
        /\ vanishingLocks = {}

\* C25: when a deactivateLockdown run completes and no lockdown is active or
\* being activated, no vanishing lock file is left and the re-enabling of the
\* network has been logged; a deactivate command given while no lockdown is
\* active changes nothing and logs nothing.
C25_DeactivationReversesLocks ==
    [][/\ (/\ deactRuns'["log"] < deactRuns["log"]
            /\ ~isLockedDown'
            /\ actRuns' = {})
           => /\ lockFiles' = {}
              /\ logStore'["NETWORK_ACCESS_ENABLED"] >= 1
       /\ (deactivateCalls' > deactivateCalls /\ ~isLockedDown)
           => UNCHANGED <<isLockedDown, deactRuns, logStore, lockFiles,
                          vanishingLocks>>]_vars

(***************************************************************************)
(* Claims about the VaultManager                                           *)
(***************************************************************************)

\* The step is an add / remove command.
IsFolderCommand(op) ==
    /\ folderCommands' # folderCommands
    /\ lastCommand'.op = op

C14_FoldersMatchWatches == vaultReady => protectedFolders = fileWatchers

\* C15: a failure to read or write the persisted list loses no folder: every
\* folder registered and not removed is in the in-memory set, and in the
\* persisted list whenever a save has just succeeded.
C15_NoFolderLost ==
    /\ [](vaultReady => registered \subseteq protectedFolders)
    /\ [][ savesOk' # savesOk
              => registered' \subseteq persistedFolders' ]_vars

\* The step is a decryptFile call for a path that has a blob.
DecryptsBlob ==
    /\ lastDecrypt' # lastDecrypt
    /\ blobStore[lastDecrypt'.path] # NoBlob

\* The blob of the path is as encryptFile wrote it, under the current key.
BlobIntact(path) ==
    /\ path \notin tampered
    /\ blobOrigin[path].key = encryptionKey

\* C16: decryptFile of a path whose blob is as encryptFile wrote it, under the
\* same key, returns a temporary path, the temporary file holds the plaintext
\* that was encrypted, and the mapping from the path is recorded.
C16_RoundTrip ==
    [][ (DecryptsBlob /\ BlobIntact(lastDecrypt'.path))
          => /\ lastDecrypt'.result = "temp"
             /\ tempFiles'[lastDecrypt'.path]
                   = <<blobOrigin[lastDecrypt'.path].plain>>
             /\ lastDecrypt'.path \in tempDecryptedFiles' ]_vars

C18_EncryptFileEffect ==
    [][ lastEncrypt' # lastEncrypt
          => IF lastEncrypt'.readable
             THEN /\ blobStore'[lastEncrypt'.path] # NoBlob
                  /\ Decrypt(encryptionKey, blobStore'[lastEncrypt'.path])
                        = [ok |-> TRUE, data |-> fileContent[lastEncrypt'.path]]
                  /\ fileContent'[lastEncrypt'.path] \in DecoyContents
             ELSE UNCHANGED <<blobStore, fileContent>> ]_vars

\* The files activateDecoyFiles is to rewrite: the sensitive regular files
\* directly in a protected folder.
ToBeRewritten ==
    (IF "/proj" \in protectedFolders THEN {"/proj/a.py"} ELSE {})
        \cup (IF "/other" \in protectedFolders THEN {"/other/b.py"} ELSE {})

C27_KeysNeverRotated ==
    /\ encryptionKey = firstKeys["vault"]
    /\ loggerKey = firstKeys["logger"]
    /\ \A p \in FilePaths :
          (blobStore[p] # NoBlob /\ p \notin tampered) =>
              /\ Decrypt(encryptionKey, blobStore[p]).ok
              /\ Decrypt(encryptionKey, blobStore[p]).data = blobOrigin[p].plain

(***************************************************************************)
(* Claims about the SecurityLogger                                         *)
(***************************************************************************)

\* C20: no entry is appended to an active log file whose size already exceeds
\* the ceiling: the file is rotated before the next append.
C20_RotationBeforeNextAppend == lastAppendBase <= LogCeiling

\* C21: every retention cleanup leaves at most maxLogFiles log files, never
\* deletes the current log file, and deletes a file only if every file it
\* keeps is newer (log files are numbered in the order of their creation).
C21_RetentionKeepsNewest ==
    [][rotations' > rotations =>
          LET before  == loggerFiles \cup {currentLogFile'}
              deleted == before \ loggerFiles'
          IN  /\ Cardinality(loggerFiles') <= MaxLogFiles
              /\ currentLogFile' \in loggerFiles'
              /\ \A d \in deleted : \A k \in loggerFiles' : k > d]_vars

\* The entries writeLogEntry has appended to the file.
EntriesWritten(content) == 1..(NextEntry(content) - 1)

\* C22: every entry appended by writeLogEntry is a line of its own in the
\* active log file and is among the entries getAllLogs returns for that file.
C22_EntryPerLineAndReadable ==
    \A e \in EntriesWritten(activeContent) :
        /\ \E i \in 1..Len(LinesOf(activeContent)) :
               LinesOf(activeContent)[i] = <<e>>
        /\ e \in GetAllLogs(activeContent)

(***************************************************************************)
(* Claims about the security scan                                          *)
(***************************************************************************)

\* The patterns of a list the lower-cased name contains, by position.
PatternsIn(raw, patterns) ==
    {i \in 1..Len(patterns) :
        Includes(ToLowerCase(raw), ToLowerCase(patterns[i]))}

\* C28: in process and window matching an item whose lower-cased name
\* contains an excluded pattern produces no event, whatever suspicious
\* patterns it also contains; any other item produces no event if it contains
\* no suspicious pattern and otherwise exactly one, for the first suspicious
\* pattern in list order that it contains.
C28_ExclusionFirstOneEventPerItem ==
    [][(scanPc \in {"matchProcesses", "matchWindows"}
            /\ scanItems' = Tail(scanItems)) =>
          LET item     == Head(scanItems)
              excluded == IF scanPc = "matchProcesses"
                          THEN PatternsIn(item, ExcludedProcessNames)
                          ELSE PatternsIn(item, ExcludedWindowTitles)
              matching == IF scanPc = "matchProcesses"
                          THEN PatternsIn(item, SuspiciousProcessNames)
                          ELSE PatternsIn(item, SuspiciousWindowTitles)
              emitted  == Len(reported') - Len(reported)
          IN  /\ excluded # {} => emitted = 0
              /\ matching = {} => emitted = 0
              /\ (excluded = {} /\ matching # {}) =>
                     /\ emitted = 1
                     /\ lastMatch'.pattern \in matching
                     /\ \A i \in matching : lastMatch'.pattern <= i]_vars

\* A process whose name contains an excluded and a suspicious pattern has
\* been looked at, as the last of its listing, and nothing has been reported.
C28_Witness ==
    /\ lastMatch.kind = "process"
    /\ PatternsIn(lastMatch.item, ExcludedProcessNames) # {}
    /\ PatternsIn(lastMatch.item, SuspiciousProcessNames) # {}
    /\ lastMatch.pattern = 0
    /\ reported = <<>>
    /\ scanPc = "windows"

\* C29: on every entropy check, with a spike being a value more than 0.5 away
\* from the baseline: a spike increments the counter, and when that takes it
\* above 3 an event is emitted and the counter reset to 0; anything else
\* decrements the counter, not below 0, and emits nothing; so the counter is
\* within 0..3 after the check, and an event is emitted only with at least 4
\* spikes observed since the start or the last reset.
C29_EntropyCounter ==
    [][(scanPc = "entropy" /\ scanPc' = "vm") =>
          LET current == lastEntropy'.current
              spike   == \/ current - entropyBaseline > 5
                         \/ entropyBaseline - current > 5
              emitted == Len(reported') - Len(reported)
          IN  /\ (spike /\ entropySpikes + 1 > 3) =>
                     emitted = 1 /\ entropySpikes' = 0
              /\ (spike /\ entropySpikes + 1 <= 3) =>
                     emitted = 0 /\ entropySpikes' = entropySpikes + 1
              /\ ~spike =>
                     /\ emitted = 0
                     /\ entropySpikes' =
                            IF entropySpikes = 0 THEN 0 ELSE entropySpikes - 1
              /\ entropySpikes' \in 0..3
              /\ emitted = 1 => spikesSinceReset + 1 >= 4]_vars

\* The fifth entropy check has emitted the event and reset the counter: four
\* checks saw a spike and one did not.
C29_Witness ==
    /\ lastEntropy.emitted
    /\ lastEntropy.observed = 4
    /\ entropySpikes = 0
    /\ Len(reported) = 1
    /\ scans = 5
    /\ scanPc = "vm"

\* The check that follows a SignalSource call of the scan which found nothing
\* to look at.
NextCheck(pc) ==
    CASE pc = "processes" -> {"windows"}
      [] pc = "windows" -> {"entropy"}
      [] pc = "vm" -> {"idle"}
      [] pc = "vmProcesses" -> {"vmProcesses", "idle"}

\* C30: when the process listing, the window listing or the system query
\* fails during a scan, no event is emitted and the history and the level
\* stay as they are, the scan goes on with its next check (the system query
\* belongs to the last one), and whenever no scan is running the periodic
\* timer that starts the next one is still set.
C30_FailedSignalIsNoSignal ==
    [][(/\ scanPc \in {"processes", "windows", "vm", "vmProcesses"}
        /\ lastSignal'.failed) =>
          /\ reported' = reported
          /\ recentThreats' = recentThreats
          /\ securityLevel' = securityLevel
          /\ levelEvents' = levelEvents
          /\ scanPc' \in NextCheck(scanPc)
          /\ (scanPc' = "idle" => (isRunning' /\ "scan" \in intervals'))]_vars

\* In the first scan a window was reported, the system query that came
\* after it failed and nothing more was reported, and the second scan has
\* started.
C30_Witness ==
    /\ lastSignal = [source |-> "systeminfo", failed |-> TRUE]
    /\ lastMatch.kind = "window"
    /\ lastMatch.pattern > 0
    /\ Len(reported) = 1
    /\ scans = 2
    /\ scanPc = "debugger"

(***************************************************************************)
(* Claims about countermeasures and lockdown                               *)
(***************************************************************************)

\* C31: a vanishing lock stays in place for its full TTL unless shutdown
\* releases it: a lock file is removed by a timer only when that timer is the
\* one set at the lock's last creation, that is when no younger timer for the
\* same path is pending.
C31_LockKeepsFullTtl ==
    [][\A p \in FilePaths :
          (p \in lockFiles /\ p \notin lockFiles' /\ shutdownPc' = shutdownPc)
              => lockTimers[p] = 1]_vars

\* C32: the panic wipe removes only temp files, the cache and non-security
\* logs: across wipeSensitiveData every file of the encrypted log store and
\* its content, both key files and the logger's key, the persisted folder
\* list and the files and blobs of the protected folders are unchanged, and
\* every other file that disappears is a temp file of the application, a
\* cache entry or a log whose name contains neither 'security' nor 'threat'.
C32_WipeKeepsAuditTrail ==
    [][(panicPc = "wipe" /\ panicPc' # "wipe")
          => /\ loggerFiles' = loggerFiles
             /\ activeContent' = activeContent
             /\ activeSize' = activeSize
             /\ vaultKeyFile' = vaultKeyFile
             /\ loggerKeyFile' = loggerKeyFile
             /\ loggerKey' = loggerKey
             /\ persistedFolders' = persistedFolders
             /\ fileContent' = fileContent
             /\ blobStore' = blobStore
             /\ \A f \in otherFiles \ otherFiles' :
                    \/ f.dir = "cache"
                    \/ f.dir = "tmp" /\ f \notin {File("tmp", <<"n", "o", "t", "e", "s", ".", "t", "x", "t">>)}
                    \/ f.dir = "logs" /\ f = File("logs", <<"d", "e", "b", "u", "g", ".", "l", "o", "g">>)]_vars

\* The wipe has run over a log store of several files among all the other
\* files: the temp files of the application, the cache entry and the debug
\* log are gone, the foreign temp file and the threat report remain.
C32_Witness ==
    /\ panicPc \in {"lockdown", "crash"}
    /\ rotations >= 1
    /\ Cardinality(loggerFiles) >= 2
    /\ Len(activeContent) >= 2
    /\ persistedFolders # {}
    /\ otherFiles = {File("tmp", <<"n", "o", "t", "e", "s", ".", "t", "x", "t">>),
                     File("logs", <<"t", "h", "r", "e", "a", "t", "_", "r", "e", "p", "o", "r", "t", ".", "t", "x", "t">>)}

\* C33: every ThreatEvent appended to the history is delivered to
\* handleThreatDetected, which writes it to the log and dispatches its
\* countermeasure: each reported event is being logged by a suspended run of
\* the handler or is in the log, also when it was reported before the main
\* process registered its handlers.
C33_EveryEventHandled ==
    \A i \in 1..Len(reported) :
        reported[i].timestamp \in handlerLogging \cup Range(threatLog)

\* C34: the original plaintext of a sensitive file in a protected folder stays
\* recoverable through the countermeasures: the file holds its original
\* content, or its '.encrypted' blob decrypts under the vault's key to that
\* content.
C34_OriginalRecoverable ==
    \A p \in LockdownTargets :
        \/ fileContent[p] = <<1>>
        \/ /\ blobStore[p] # NoBlob
           /\ Decrypt(encryptionKey, blobStore[p]) = [ok |-> TRUE, data |-> <<1>>]

\* C35: no lockdown is deactivated by a timer before its own duration has
\* passed: a timer that deactivates a lockdown is the one set by the most
\* recent activation, and at most one deactivation timer is pending.
C35_TimerOfOwnLockdown ==
    /\ [](Cardinality(timers) <= 1)
    /\ [][ autoDeactivated' # autoDeactivated
              => timers \ timers' = {runsStarted} ]_vars

\* C36: when a deactivateLockdown was handled while an activateLockdown was
\* suspended and both have completed, the lockdown state is consistent: the
\* LOCKDOWN_ACTIVATED and LOCKDOWN_DEACTIVATED entries alternate, isLockedDown
\* holds exactly when the last of them is LOCKDOWN_ACTIVATED (there is one
\* more of them than of the others), and a deactivation timer is pending only
\* while isLockedDown holds.
C36_SettledLockdownConsistent ==
    (/\ actRuns = {}
     /\ \A p \in DOMAIN deactRuns : deactRuns[p] = 0
     /\ dataDirExists)
        => /\ logStore["LOCKDOWN_ACTIVATED"]
                 = logStore["LOCKDOWN_DEACTIVATED"] + (IF isLockedDown THEN 1 ELSE 0)
           /\ timers # {} => isLockedDown

\* C37: log rotation never loses an entry: when the new active file is
\* created, it holds no entry that writeLogEntry has appended to it (creating
\* the file truncates nothing), whatever the interleaving of writeLogEntry
\* with the rotation.
C37_RotationLosesNoEntry ==
    [][(CreatingLogFile /\ ~CreatingLogFile') => activeContent = <<>>]_vars

\* C38: the persisted folder list converges to the in-memory set: once a
\* command has saved and no save is in flight, protected_folders.json holds
\* the folders of protectedFolders, whatever the interleaving of the
\* commands and their saves.
C38_PersistedListConverges ==
    (vaultReady /\ savesOk > 0 /\ pendingSaves = 0 /\ configWrites = {})
        => persistedFolders = protectedFolders

\* C39: when the ThreatMonitor is not running (before startMonitoring and
\* after shutdown) none of its periodic checks is pending: neither the
\* 5-second scan nor the 10-second debugger-timing check can report a threat.
C39_ShutdownStopsEveryCheck ==
    ~isRunning => intervals \cap MonitorIntervals = {}

====
